---- MODULE Spec2Model ----
(***************************************************************************)
(* A model of the polymer-analyzer document-graph engine (class Analyzer)  *)
(* and of the behavior scanner (class BehaviorVisitor).                    *)
(*                                                                         *)
(* The Analyzer is single-threaded and cooperative: every action below is  *)
(* one synchronous run of JavaScript between two suspension points         *)
(* (an await).  Promises are records in the sequences `scans` and `loads`; *)
(* a promise's identity is its index.                                      *)
(***************************************************************************)
EXTENDS Integers, Sequences, FiniteSets, TLC

VARIABLES
    roots,              \* the URLs the caller of this run asks for
    _parsedDocuments,   \* Map<string, Promise<ParsedDocument>>: url -> load id, 0 = no entry
    _scannedDocuments,  \* Map<string, Promise<ScannedDocument>>: url -> scan id, 0 = no entry
    scans,              \* every Promise<ScannedDocument> ever created
    loads,              \* every Promise<ParsedDocument> ever created by _loadResolved
    requests,           \* every analyzeRoot call ever made
    clearMark,          \* what existed when the caches were last cleared
    turn                \* "caller" while the caller's code runs, else "loop"

avars == <<roots, _parsedDocuments, _scannedDocuments, scans, loads, requests, clearMark,
          turn>>

VARIABLES
    objects,            \* every ScannedBehavior the visitor has constructed
    behaviors,          \* BehaviorVisitor.behaviors: the records emitted, in insertion order
    currentBehavior,    \* BehaviorVisitor.currentBehavior, 0 = null
    propertyHandlers,   \* the record BehaviorVisitor.propertyHandlers is bound to, 0 = null
    visited,            \* the nodes the visitor's handlers were called with
    todo,               \* the object literals of the current statement yet to visit
    status,             \* "visiting", "thrown" (the scan failed) or "returned"
    thrown              \* what was thrown, NoError while nothing was

bvars == <<objects, behaviors, currentBehavior, propertyHandlers, visited, todo, status,
          thrown>>

VARIABLES
    _idCounter,             \* SelfChannel._idCounter
    _outstandingRequests,   \* SelfChannel._outstandingRequests: id -> Deferred
    childInbox,             \* the RequestWrappers on their way to the child
    parentInbox,            \* the ResponseWrappers on their way to the parent
    server,                 \* the child: "starting", "serving", "deaf" or "killed"
    handling,               \* the RequestWrappers whose getSettledValue is awaited
    sent,                   \* every RequestWrapper handed to child.send
    answers,                \* every response of the server, with the request it answers
    foreign,                \* the messages emitted by a child that is not this server
    client,                 \* the parent process: "running" or "crashed"
    editorServer            \* the child's `let server: EditorServer`

rvars == <<_idCounter, _outstandingRequests, childInbox, parentInbox, server, handling, sent,
          answers, foreign, client, editorServer>>

VARIABLES
    htmlDocument,       \* the document HtmlStyleScanner.scan is called with
    styleFeatures,      \* const features of HtmlStyleScanner.scan
    nodesVisited,       \* the nodes of the document the visitor was called with
    styleScan           \* "idle", "visiting" or "returned"

svars == <<htmlDocument, styleFeatures, nodesVisited, styleScan>>

vars == <<avars, bvars, rvars, svars>>

----------------------------------------------------------------------------
(* Bounds of the model *)

\* calls of the caller (analyzeRoot, clear caches) in one run
MaxCalls == 3
\* clear-caches calls in one run
MaxClears == 1

----------------------------------------------------------------------------
(* The environment: loader, parsers, scanners and the files on disk.       *)
(* A URL is <<name, extension>>.                                           *)

A_html == <<"a", "html">>
B_html == <<"b", "html">>
R_html == <<"r", "html">>
V_html == <<"v", "html">>
X_txt  == <<"x", "txt">>
E_html == <<"e", "html">>
G_html == <<"g", "html">>
H_html == <<"h", "html">>
N_txt  == <<"n", "txt">>
T_html == <<"t", "html">>
F_html == <<"f", "html">>
P_html == <<"p", "html">>
K_js   == <<"k", "js">>

URLS == {A_html, B_html, R_html, V_html, X_txt, E_html, G_html, H_html, N_txt, T_html,
         F_html, P_html, K_js}

\* The sets of root URLs a caller works with in one run.
RootSets == { {A_html}, {H_html}, {R_html, V_html}, {E_html}, {G_html}, {N_txt, X_txt} }

\* `contents` of a call: NoContents models undefined; the k-th call's fresh
\* contents are the value k, so two calls never supply the same contents.
NoContents == 0
\* contents read from disk by loader.load
DiskContents == 0

\* path.extname(resolvedUrl).substring(1)
extname(url) == url[2]

\* Analyzer._parsers: the types with a registered parser
_parsers == {"html", "js", "css", "json"}

\* Analyzer.scanners: the types with registered scanners
scanners == {"html", "js"}

\* UrlLoader.canLoad
canLoad(url) == url # N_txt

\* UrlLoader.load: TRUE when the returned promise is fulfilled
loadSucceeds(url) == url # F_html

\* parser.parse on the given contents of url: "ok", "error" (any exception
\* but a WarningCarryingException) or "warning" (a WarningCarryingException)
parserOutcome(url, contents) ==
    IF url = P_html /\ contents = DiskContents THEN "error" ELSE "ok"

\* No attached comment (undefined)
NoComment == ""

(* Feature constructors.  sourceRange is the line of the feature in its    *)
(* file; scannedDocument is the back-link, 0 while it is not set;          *)
(* locationOffset and attachedComment are those of an inline document: the *)
(* line of its text in the container and the HTML comment before its tag;  *)
(* htmlComment is the comment applied to an element.                       *)
Import(url, line) ==
    [kind |-> "import", url |-> url, type |-> "", sourceRange |-> line,
     scannedDocument |-> 0, locationOffset |-> 0, attachedComment |-> NoComment,
     htmlComment |-> NoComment]
InlineParsedDocument(type, line, attachedComment) ==
    [kind |-> "inline", url |-> <<"", "">>, type |-> type, sourceRange |-> line,
     scannedDocument |-> 0, locationOffset |-> line,
     attachedComment |-> attachedComment, htmlComment |-> NoComment]
Inline(type, line) == InlineParsedDocument(type, line, NoComment)
\* A ScannedElement, and a ScannedFeature that is neither an element nor a
\* dependency
ScannedElement(line) ==
    [kind |-> "element", url |-> <<"", "">>, type |-> "", sourceRange |-> line,
     scannedDocument |-> 0, locationOffset |-> 0, attachedComment |-> NoComment,
     htmlComment |-> NoComment]
ScannedFeature(line) ==
    [kind |-> "feature", url |-> <<"", "">>, type |-> "", sourceRange |-> line,
     scannedDocument |-> 0, locationOffset |-> 0, attachedComment |-> NoComment,
     htmlComment |-> NoComment]

\* scan(document, scanners) for the document parsed from url: "throws" when a
\* scanner throws, else the features in scanner order
scanOutcome(url) == IF url = K_js THEN "throws" ELSE "ok"

scan(url) ==
    CASE url = A_html -> << Import(B_html, 1) >>
      [] url = B_html -> << Import(A_html, 1) >>
      [] url = R_html -> << Import(V_html, 1), Import(X_txt, 2),
                            InlineParsedDocument("js", 3, "An element.") >>
      [] url = E_html -> << Import(N_txt, 1), Import(T_html, 2) >>
      [] url = G_html -> << Import(F_html, 1), Import(P_html, 2) >>
      [] url = H_html -> << Import(K_js, 1), InlineParsedDocument("js", 2, "A mixin."),
                            Inline("json", 3) >>
      [] url = T_html -> << Inline("coffee", 1) >>
      [] OTHER -> << >>

\* scan(document, scanners) for the inline document of the given type in the
\* document of url
scanInline(type, url) ==
    CASE url = R_html -> << ScannedElement(1), ScannedElement(2) >>
      [] url = H_html -> << ScannedFeature(1), ScannedElement(2) >>
      [] OTHER -> << >>

\* parser.parse on the contents of an inline document of the given type
inlineParserOutcome(type) == IF type = "json" THEN "warning" ELSE "ok"

----------------------------------------------------------------------------
(* Promise records *)

Settled(p) == p.pc \in {"fulfilled", "rejected"}

\* A scan promise: the async function of _scanResolved (inline = FALSE) or of
\* _scanSource (inline = TRUE).
NewScan(url, contents) ==
    [url |-> url, inline |-> FALSE, type |-> extname(url), provided |-> contents,
     pc |-> "tick", load |-> 0, err |-> "none", edges |-> << >>,
     completed |-> << >>, dependencies |-> << >>,
     warnings |-> << >>, isInline |-> FALSE, features |-> << >>]

\* A load promise: the async function of _loadResolved.
\* The value of a load promise that is not fulfilled: no ParsedDocument
NoDocument == [type |-> "", url |-> <<"", "">>, contents |-> -1, ast |-> << >>]

NewLoad(url, contents) ==
    [url |-> url, provided |-> contents, pc |-> "tick", contents |-> -1,
     err |-> "none", document |-> NoDocument]

\* Analyzer._resolveUrl with no UrlResolver configured (options.urlResolver
\* undefined): the url itself
_resolveUrl(url) == url

\* A continuation of scan promise s is in the microtask queue.
ScanRunnable(s) ==
    \/ scans[s].pc = "tick"
    \/ scans[s].pc = "load" /\ Settled(loads[scans[s].load])
    \/ scans[s].pc = "deps"
         /\ \A i \in 1..Len(scans[s].edges) : scans[s].edges[i].state # "pending"
    \/ scans[s].pc = "deps"
         /\ \E i \in 1..Len(scans[s].edges) :
               /\ scans[s].edges[i].state = "pending"
               /\ Settled(scans[scans[s].edges[i].target])

\* The least element of a set of positive numbers, 0 for the empty set
Least(S) == IF S = {} THEN 0 ELSE CHOOSE x \in S : \A y \in S : x <= y

(* The microtask queue.  Continuations run one at a time and the caller    *)
(* cannot run between them, so their order shows only where two of them    *)
(* work on the same map entry: the first steps of two scans of one url     *)
(* (both call _loadResolved for it) and the dispatches of two scans that   *)
(* import one url.  The first steps run in the order the queue gives them, *)
(* the order of creation; for the dispatches either order yields the same  *)
(* promises and edges.  The order is therefore fixed: a load promise's     *)
(* continuation before a scan promise's, and among promises of one kind    *)
(* the one created first.  I/O completions (LoadIO) come in any order.     *)
FirstLoad == Least({l \in 1..Len(loads) : loads[l].pc = "tick"})
FirstScan == IF FirstLoad # 0 THEN 0
             ELSE Least({s \in 1..Len(scans) : ScanRunnable(s)})

\* The microtask queue is not empty.
MicrotaskPending == FirstLoad # 0 \/ FirstScan # 0

(* The caller's code runs in macrotasks (a test, a timer, the editor       *)
(* server's message handler): it starts when the microtask queue is empty  *)
(* and may make several calls back to back before it returns to the event  *)
(* loop.                                                                   *)
CallerMayRun == turn = "caller" \/ ~MicrotaskPending

----------------------------------------------------------------------------
(* Analyzer._parse: the error it throws, or "none" *)
_parse(type, outcome) ==
    IF type \notin _parsers THEN "NoKnownParserError"
    ELSE IF outcome = "warning" THEN "WarningCarryingException"
    ELSE IF outcome = "error" THEN "ParseError"
    ELSE "none"

\* Mutant: the cache is not consulted
_scanResolvedNoCache(st, resolvedUrl, contents) ==
    [scans |-> Append(st.scans, NewScan(resolvedUrl, contents)),
     cache |-> [st.cache EXCEPT ![resolvedUrl] = Len(st.scans) + 1],
     ret   |-> Len(st.scans) + 1]

\* Mutant: a cached promise that was rejected is computed anew
_scanResolvedRetriesFailed(st, resolvedUrl, contents) ==
    IF st.cache[resolvedUrl] # 0 /\ st.scans[st.cache[resolvedUrl]].pc # "rejected"
    THEN [st EXCEPT !.ret = st.cache[resolvedUrl]]
    ELSE LET id == Len(st.scans) + 1
         IN  [scans |-> Append(st.scans, NewScan(resolvedUrl, contents)),
              cache |-> [st.cache EXCEPT ![resolvedUrl] = id],
              ret   |-> id]

(* Analyzer._scanResolved on the heap st = [scans, cache]: the heap after  *)
(* the call and, in ret, the promise returned.                             *)
_scanResolved(st, resolvedUrl, contents) ==
    IF st.cache[resolvedUrl] # 0
    THEN [st EXCEPT !.ret = st.cache[resolvedUrl]]
    ELSE LET id == Len(st.scans) + 1
         IN  [scans |-> Append(st.scans, NewScan(resolvedUrl, contents)),
              cache |-> [st.cache EXCEPT ![resolvedUrl] = id],
              ret   |-> id]

\* Mutant: new contents flush the whole map
EvictAll(cache, resolvedUrl, contents) ==
    IF contents # NoContents THEN [u \in URLS |-> 0] ELSE cache

\* Map.delete(resolvedUrl), done when contents != null
Evict(cache, resolvedUrl, contents) ==
    IF contents # NoContents THEN [cache EXCEPT ![resolvedUrl] = 0] ELSE cache

(* Analyzer.analyzeRoot up to its await.  A request records, for the       *)
(* claims, whether the call was made back to back with the caller's        *)
(* previous one (sync) and how many load promises existed (loads).         *)
AnalyzeRoot(url, withContents) ==
    /\ CallerMayRun
    /\ Len(requests) + clearMark.n < MaxCalls
    /\ url \in roots
    /\ LET resolvedUrl == _resolveUrl(url)
           contents == IF withContents THEN Len(requests) + 1 ELSE NoContents
           sd == Evict(_scannedDocuments, resolvedUrl, contents)
           pd == Evict(_parsedDocuments, resolvedUrl, contents)
           st == _scanResolved([scans |-> scans, cache |-> sd, ret |-> 0],
                               resolvedUrl, contents)
       IN  /\ scans' = st.scans
           /\ _scannedDocuments' = st.cache
           /\ _parsedDocuments' = pd
           /\ requests' = Append(requests,
                  [url |-> resolvedUrl, contents |-> contents, scan |-> st.ret,
                   sync |-> turn = "caller", loads |-> Len(loads),
                   done |-> {r \in 1..Len(requests) :
                               Settled(scans[requests[r].scan])}])
    /\ turn' = "caller"
    /\ UNCHANGED <<roots, loads, clearMark,
                   bvars, rvars, svars>>

\* Mutant: only the scan cache is emptied
ClearCachesScansOnly ==
    /\ CallerMayRun
    /\ Len(requests) + clearMark.n < MaxCalls
    /\ clearMark.n < MaxClears
    /\ _scannedDocuments' = [u \in URLS |-> 0]
    /\ clearMark' = [n |-> clearMark.n + 1, scans |-> Len(scans),
                     loads |-> Len(loads), requests |-> Len(requests)]
    /\ turn' = "caller"
    /\ UNCHANGED <<roots, _parsedDocuments, scans, loads, requests,
                   bvars, rvars, svars>>

(* The clear-caches operation of the editor service: both maps emptied *)
ClearCaches ==
    /\ CallerMayRun
    /\ Len(requests) + clearMark.n < MaxCalls
    /\ clearMark.n < MaxClears
    /\ _parsedDocuments' = [u \in URLS |-> 0]
    /\ _scannedDocuments' = [u \in URLS |-> 0]
    /\ clearMark' = [n |-> clearMark.n + 1, scans |-> Len(scans),
                     loads |-> Len(loads), requests |-> Len(requests)]
    /\ turn' = "caller"
    /\ UNCHANGED <<roots, scans, loads, requests,
                   bvars, rvars, svars>>

\* Mutant: loader.canLoad is not asked
_loadResolvedNoCanLoad(cachedResult, resolvedUrl) ==
    IF cachedResult # 0 THEN "cached" ELSE "create"

\* Analyzer._loadResolved up to its return: what the synchronous part does
_loadResolved(cachedResult, resolvedUrl) ==
    IF cachedResult # 0 THEN "cached"
    ELSE IF ~canLoad(resolvedUrl) THEN "throw"
    ELSE "create"

(* The async function of _scanResolved after `await Promise.resolve()`:    *)
(* the call of _loadResolved up to its return.                             *)
ScanTick(s) ==
    /\ s # 0
    /\ scans[s].pc = "tick"
    /\ LET resolvedUrl == scans[s].url
           cachedResult == _parsedDocuments[resolvedUrl]
           does == _loadResolved(cachedResult, resolvedUrl)
       IN  IF does = "cached"
           THEN /\ scans' = [scans EXCEPT ![s].pc = "load", ![s].load = cachedResult]
                /\ UNCHANGED <<loads, _parsedDocuments>>
           ELSE IF does = "throw"
           THEN /\ scans' = [scans EXCEPT ![s].pc = "rejected", ![s].err = "CantLoad"]
                /\ UNCHANGED <<loads, _parsedDocuments>>
           ELSE /\ loads' = Append(loads, NewLoad(resolvedUrl, scans[s].provided))
                /\ _parsedDocuments' =
                       [_parsedDocuments EXCEPT ![resolvedUrl] = Len(loads) + 1]
                /\ scans' = [scans EXCEPT ![s].pc = "load", ![s].load = Len(loads) + 1]
    /\ turn' = "loop"
    /\ UNCHANGED <<roots, _scannedDocuments, requests, clearMark,
                   bvars, rvars, svars>>

\* Mutant: a constructor that keeps no contents
ParsedDocumentNoContents(from) ==
    [url |-> from.url, contents |-> -1, ast |-> from.ast]

\* ParsedDocument.constructor(from: Options<A>)
ParsedDocument(from) ==
    [url |-> from.url, contents |-> from.contents, ast |-> from.ast]

(* parser.parse(contents, url) of the parser registered for `type`, when   *)
(* it returns: the subclass of ParsedDocument of that type, constructed    *)
(* from the url, the contents and the syntax tree parsed from them.        *)
parse(type, contents, url) ==
    [type |-> type] @@
    ParsedDocument([url |-> url, contents |-> contents, ast |-> << type, "root" >>])

\* The load promise l settled by parsing `contents`.
Parsed(l, contents) ==
    LET url == loads[l].url
        error == _parse(extname(url), parserOutcome(url, contents))
    IN  [loads EXCEPT ![l].contents = contents,
                      ![l].err = error,
                      ![l].pc = IF error = "none" THEN "fulfilled" ELSE "rejected",
                      ![l].document = IF error = "none"
                                      THEN parse(extname(url), contents, url)
                                      ELSE NoDocument]

(* The async function of _loadResolved after `await Promise.resolve()`:    *)
(* loader.load is called, or the provided contents are parsed.             *)
LoadTick(l) ==
    /\ l # 0
    /\ loads' = IF loads[l].provided = NoContents
                THEN [loads EXCEPT ![l].pc = "io"]
                ELSE Parsed(l, loads[l].provided)
    /\ turn' = "loop"
    /\ UNCHANGED <<roots, _parsedDocuments, _scannedDocuments, scans, requests, clearMark,
                   bvars, rvars, svars>>

(* loader.load settles: the contents are parsed, or the load promise is    *)
(* rejected with the loader's error.  An I/O callback is a macrotask: the  *)
(* event loop runs it only when the microtask queue is empty.              *)
LoadIO(l) ==
    /\ loads[l].pc = "io"
    /\ ~MicrotaskPending
    /\ loads' = IF loadSucceeds(loads[l].url)
                THEN Parsed(l, DiskContents)
                ELSE [loads EXCEPT ![l].pc = "rejected", ![l].err = "LoadRejected"]
    /\ turn' = "loop"
    /\ UNCHANGED <<roots, _parsedDocuments, _scannedDocuments, scans, requests, clearMark,
                   bvars, rvars, svars>>

\* ScannedElement.applyLocationOffset
applyLocationOffset(feature, locationOffset) ==
    [feature EXCEPT !.sourceRange = @ + locationOffset]

\* ScannedElement.applyHtmlComment
applyHtmlComment(feature, comment) ==
    IF comment = NoComment THEN feature ELSE [feature EXCEPT !.htmlComment = comment]

(* _scanDocument from the loop over scannedFeatures to applyHtmlComment:   *)
(* the features as the ScannedDocument gets them.                          *)
OffsetAndComment(scannedFeatures, locationOffset, maybeAttachedComment) ==
    LET moved == [k \in 1..Len(scannedFeatures) |->
                     IF scannedFeatures[k].kind = "element"
                     THEN applyLocationOffset(scannedFeatures[k], locationOffset)
                     ELSE scannedFeatures[k]]
    IN  IF Len(moved) > 0 /\ moved[1].kind = "element"
        THEN [moved EXCEPT ![1] = applyHtmlComment(@, maybeAttachedComment)]
        ELSE moved

(* Analyzer._scanSource of an inline document, as far as its result goes:  *)
(* the promise is rejected with what _parse throws, else fulfilled with a  *)
(* ScannedDocument that has no dependencies.                               *)
_scanSource(type, url, container, locationOffset, attachedComment) ==
    LET error == _parse(type, inlineParserOutcome(type))
    IN  [url |-> url, inline |-> TRUE, type |-> type, provided |-> NoContents,
         pc |-> IF error = "none" THEN "fulfilled" ELSE "rejected",
         load |-> container, err |-> error, edges |-> << >>,
         completed |-> << >>, dependencies |-> << >>,
         warnings |-> << >>, isInline |-> FALSE,
         features |-> IF error = "none" /\ type \in scanners
                      THEN OffsetAndComment(scanInline(type, url), locationOffset,
                                            attachedComment)
                      ELSE << >>]

\* Mutant: the scan of an inline document is cached under its container's url
RECURSIVE DispatchCachesInline(_, _, _, _, _)
DispatchCachesInline(st, features, i, url, load) ==
    IF i > Len(features) THEN st
    ELSE LET f == features[i]
         IN  IF f.kind = "inline"
             THEN DispatchCachesInline(
                    [st EXCEPT
                       !.scans = Append(@, _scanSource(f.type, url, load, f.locationOffset,
                                                        f.attachedComment)),
                       !.cache = [@ EXCEPT ![url] = Len(st.scans) + 1],
                       !.edges = Append(@, [feature |-> i, kind |-> "inline",
                                            target |-> Len(st.scans) + 1,
                                            state |-> "pending"])],
                    features, i + 1, url, load)
             ELSE IF f.kind = "import"
             THEN LET r == _scanResolved([scans |-> st.scans, cache |-> st.cache,
                                          ret |-> 0],
                                         _resolveUrl(f.url), NoContents)
                  IN  DispatchCachesInline(
                        [scans |-> r.scans, cache |-> r.cache,
                         edges |-> Append(st.edges,
                                     [feature |-> i, kind |-> "import",
                                      target |-> r.ret, state |-> "pending"])],
                        features, i + 1, url, load)
             ELSE DispatchCachesInline(st, features, i + 1, url, load)

(* The map of _scanDocument: _scanInlineDocument or _scanImport is called  *)
(* for each dependency feature in order, each up to its first await.       *)
RECURSIVE Dispatch(_, _, _, _, _)
Dispatch(st, features, i, url, load) ==
    IF i > Len(features) THEN st
    ELSE LET f == features[i]
         IN  IF f.kind = "inline"
             THEN Dispatch(
                    [st EXCEPT
                       !.scans = Append(@, _scanSource(f.type, url, load, f.locationOffset,
                                                        f.attachedComment)),
                       !.edges = Append(@, [feature |-> i, kind |-> "inline",
                                            target |-> Len(st.scans) + 1,
                                            state |-> "pending"])],
                    features, i + 1, url, load)
             ELSE IF f.kind = "import"
             THEN LET r == _scanResolved([scans |-> st.scans, cache |-> st.cache,
                                          ret |-> 0],
                                         _resolveUrl(f.url), NoContents)
                  IN  Dispatch(
                        [scans |-> r.scans, cache |-> r.cache,
                         edges |-> Append(st.edges,
                                     [feature |-> i, kind |-> "import",
                                      target |-> r.ret, state |-> "pending"])],
                        features, i + 1, url, load)
             ELSE Dispatch(st, features, i + 1, url, load)

\* Analyzer._getScannedFeatures
_getScannedFeatures(type, url) == IF type \in scanners THEN scan(url) ELSE << >>

(* The async function of _scanResolved once the load promise has settled:  *)
(* rejected with the load's error, or _scanDocument up to `await           *)
(* Promise.all`.                                                           *)
ScanLoaded(s) ==
    /\ s # 0
    /\ scans[s].pc = "load"
    /\ Settled(loads[scans[s].load])
    /\ LET l == loads[scans[s].load]
           url == scans[s].url
       IN  IF l.pc = "rejected"
           THEN /\ scans' = [scans EXCEPT ![s].pc = "rejected", ![s].err = l.err]
                /\ UNCHANGED _scannedDocuments
           ELSE IF scans[s].type \in scanners /\ scanOutcome(url) = "throws"
           THEN /\ scans' = [scans EXCEPT ![s].pc = "rejected", ![s].err = "ScanError"]
                /\ UNCHANGED _scannedDocuments
           ELSE LET st == Dispatch([scans |-> scans, cache |-> _scannedDocuments,
                                    edges |-> << >>],
                                   _getScannedFeatures(scans[s].type, url), 1,
                                   url, scans[s].load)
                IN  /\ scans' = [st.scans EXCEPT
                                     ![s].pc = "deps",
                                     ![s].edges = st.edges,
                                     ![s].features =
                                         OffsetAndComment(
                                             _getScannedFeatures(scans[s].type, url),
                                             0, NoComment)]
                    /\ _scannedDocuments' = st.cache
    /\ turn' = "loop"
    /\ UNCHANGED <<roots, _parsedDocuments, loads, requests, clearMark,
                   bvars, rvars, svars>>

\* The warning _scanImport pushes for a failed import
CouldNotLoad(feature) ==
    [code |-> "could-not-load", severity |-> "ERROR",
     sourceRange |-> feature.sourceRange]

\* The warning of a WarningCarryingException thrown for an inline document,
\* its range moved by the inline document's location offset
InlineWarning(feature) ==
    [code |-> "parse-error", severity |-> "ERROR",
     sourceRange |-> feature.sourceRange + 1]

\* Mutant: every failed import is warned about
_scanImportAlwaysWarns(s, i) ==
    LET target == scans[scans[s].edges[i].target]
        feature == scan(scans[s].url)[scans[s].edges[i].feature]
    IN  IF target.pc = "fulfilled"
        THEN [scans EXCEPT ![s].edges[i].state = "resolved",
                           ![s].features[scans[s].edges[i].feature].scannedDocument =
                               scans[s].edges[i].target]
        ELSE [scans EXCEPT ![s].edges[i].state = "warned",
                           ![s].warnings = Append(@, CouldNotLoad(feature))]

\* Mutant: the import is not linked to its document
_scanImportNoBackLink(s, i) ==
    LET target == scans[scans[s].edges[i].target]
        feature == scan(scans[s].url)[scans[s].edges[i].feature]
    IN  IF target.pc = "fulfilled"
        THEN [scans EXCEPT ![s].edges[i].state = "resolved"]
        ELSE IF target.err = "NoKnownParserError"
        THEN [scans EXCEPT ![s].edges[i].state = "dropped"]
        ELSE [scans EXCEPT ![s].edges[i].state = "warned",
                           ![s].warnings = Append(@, CouldNotLoad(feature))]

(* _scanImport after its await: the target promise has settled *)
_scanImport(s, i) ==
    LET target == scans[scans[s].edges[i].target]
        feature == scan(scans[s].url)[scans[s].edges[i].feature]
    IN  IF target.pc = "fulfilled"
        THEN [scans EXCEPT ![s].edges[i].state = "resolved",
                           ![s].features[scans[s].edges[i].feature].scannedDocument =
                               scans[s].edges[i].target]
        ELSE IF target.err = "NoKnownParserError"
        THEN [scans EXCEPT ![s].edges[i].state = "dropped"]
        ELSE [scans EXCEPT ![s].edges[i].state = "warned",
                           ![s].warnings = Append(@, CouldNotLoad(feature))]

\* Mutant: every error of an inline document is thrown again
_scanInlineDocumentRethrows(s, i) ==
    LET t == scans[s].edges[i].target
        target == scans[t]
    IN  IF target.pc = "fulfilled"
        THEN [scans EXCEPT ![s].edges[i].state = "resolved",
                           ![s].features[scans[s].edges[i].feature].scannedDocument = t,
                           ![t].isInline = TRUE]
        ELSE [scans EXCEPT ![s].edges[i].state = "threw",
                           ![s].pc = "rejected", ![s].err = target.err]

(* _scanInlineDocument after its await: the _scanSource promise has        *)
(* settled.  An error that is no WarningCarryingException is thrown again, *)
(* which rejects Promise.all and with it the scan.                         *)
_scanInlineDocument(s, i) ==
    LET t == scans[s].edges[i].target
        target == scans[t]
        feature == scan(scans[s].url)[scans[s].edges[i].feature]
    IN  IF target.pc = "fulfilled"
        THEN [scans EXCEPT ![s].edges[i].state = "resolved",
                           ![s].features[scans[s].edges[i].feature].scannedDocument = t,
                           ![t].isInline = TRUE]
        ELSE IF target.err = "WarningCarryingException"
        THEN [scans EXCEPT ![s].edges[i].state = "warned",
                           ![s].warnings = Append(@, InlineWarning(feature))]
        ELSE [scans EXCEPT ![s].edges[i].state = "threw",
                           ![s].pc = "rejected", ![s].err = target.err]

\* The dependencies of scan s whose continuation is in the microtask queue
EdgesRunnable(s) ==
    {i \in 1..Len(scans[s].edges) :
        /\ scans[s].edges[i].state = "pending"
        /\ Settled(scans[scans[s].edges[i].target])}

(* One dependency of a scan settles: of those whose target has settled,    *)
(* the one dispatched first.                                               *)
EdgeSettle(s, i) ==
    /\ s # 0
    /\ scans[s].pc = "deps"
    /\ i = Least(EdgesRunnable(s))
    /\ i # 0
    /\ scans' = [(IF scans[s].edges[i].kind = "inline"
                   THEN _scanInlineDocument(s, i)
                   ELSE _scanImport(s, i))
                     EXCEPT ![s].completed = Append(@, i)]
    /\ turn' = "loop"
    /\ UNCHANGED <<roots, _parsedDocuments, _scannedDocuments, loads, requests, clearMark,
                   bvars, rvars, svars>>

\* Mutant: the results in the order in which the promises settled
PromiseAllAsSettled(scanned) ==
    [k \in 1..Len(scanned.completed) |->
        LET edge == scanned.edges[scanned.completed[k]]
        IN  IF edge.state = "resolved" THEN edge.target ELSE 0]

(* The value of Promise.all(scannedSubDocuments): what each promise of the *)
(* array was fulfilled with, in the order of the array; 0 is null.         *)
PromiseAll(scanned) ==
    [i \in 1..Len(scanned.edges) |->
        IF scanned.edges[i].state = "resolved" THEN scanned.edges[i].target ELSE 0]

(* Promise.all is fulfilled: _scanDocument filters the nulls out and       *)
(* returns the ScannedDocument.                                            *)
ScanFinish(s) ==
    /\ s # 0
    /\ scans[s].pc = "deps"
    /\ \A i \in 1..Len(scans[s].edges) : scans[s].edges[i].state # "pending"
    /\ scans' = [scans EXCEPT ![s].pc = "fulfilled",
                              ![s].dependencies =
                                  SelectSeq(PromiseAll(scans[s]), LAMBDA d : d # 0)]
    /\ turn' = "loop"
    /\ UNCHANGED <<roots, _parsedDocuments, _scannedDocuments, loads, requests, clearMark,
                   bvars, rvars, svars>>

----------------------------------------------------------------------------
(* The behavior scanner (src/polymer/behavior-scanner.ts).                 *)
(*                                                                         *)
(* A script is visited statement by statement; a statement's object        *)
(* literals are visited right after the statement, in source order.  An    *)
(* AST node is a record; what the helpers outside this file compute from   *)
(* a node (the attached comment, the parsed doc tags, the name of a        *)
(* declaration's target, the event comments) is a field of the node.       *)

\* statements (and free-standing object literals) visited in one scan
MaxStatements == 3

\* const templatizer
templatizer == "Polymer.Templatizer"

\* String.prototype.indexOf: the index from 0 of the first occurrence of t
\* in s, -1 when there is none
indexOf(s, t) ==
    LET hits == {i \in 1..(Len(s) - Len(t) + 1) : SubSeq(s, i, i + Len(t) - 1) = t}
    IN  IF hits = {} THEN -1 ELSE Least(hits) - 1

\* Expressions.  loc is the place of the node in the script, parent the loc
\* of the statement the node is part of (0 for a statement).
ObjectExpression(loc, parent, properties) ==
    [type |-> "ObjectExpression", loc |-> loc, parent |-> parent, name |-> "",
     properties |-> properties, elements |-> << >>]

Identifier(name) ==
    [type |-> "Identifier", loc |-> 0, parent |-> 0, name |-> name,
     properties |-> << >>, elements |-> << >>]

ArrayExpression(elements) ==
    [type |-> "ArrayExpression", loc |-> 0, parent |-> 0, name |-> "",
     properties |-> << >>, elements |-> elements]

CallExpression ==
    [type |-> "CallExpression", loc |-> 0, parent |-> 0, name |-> "",
     properties |-> << >>, elements |-> << >>]

(* Statements.  comment is esutil.getAttachedComment ("" for none), hasTag *)
(* and tagName what jsdoc.hasTag and jsdoc.getTag find for polymerBehavior *)
(* in the parsed comment, demos what docs.annotateBehavior makes of its    *)
(* demo tags, events what esutil.getEventComments finds.  Each             *)
(* declaration is [id, init], id what esutil.objectKeyToString makes of    *)
(* the target ("" for undefined).  An assignment statement holds its       *)
(* expression's left and right as its one declaration.                     *)
Statement(type, loc, doc, events, declarations) ==
    [type |-> type, loc |-> loc, parent |-> 0, comment |-> doc.comment,
     hasTag |-> doc.hasTag, tagName |-> doc.tagName, demos |-> doc.demos,
     events |-> events, declarations |-> declarations]

Doc(comment, hasTag, tagName, demos) ==
    [comment |-> comment, hasTag |-> hasTag, tagName |-> tagName, demos |-> demos]

Tagged == Doc("@polymerBehavior", TRUE, "", << "demo/a.html" >>)
TaggedLonger == Doc("Selects many. @polymerBehavior", TRUE, "", << "demo/index.html" >>)
TaggedNamed == Doc("@polymerBehavior A", TRUE, "A", << >>)
LookAlike == Doc("see @polymerBehaviors", FALSE, "", << >>)
Plain == Doc("plain", FALSE, "", << >>)
NoDoc == Doc("", FALSE, "", << >>)
Notes == Doc("notes", FALSE, "", << >>)

Event(name, loc) == [name |-> name, loc |-> loc]

Declarator(id, init) == [id |-> id, init |-> init]

\* The statements a script is made of
Assignments ==
    { Statement("ExpressionStatement", 1, Tagged, << Event("e", 1) >>,
          << Declarator("A", ObjectExpression(11, 1, << "foo" >>)) >>),
      Statement("ExpressionStatement", 2, TaggedLonger,
          << Event("e", 2), Event("f", 2) >>,
          << Declarator("A", ObjectExpression(21, 2, << "bar", "observers" >>)) >>),
      Statement("ExpressionStatement", 4, Tagged, << >>,
          << Declarator("B", ArrayExpression(<< Identifier("A"), Identifier("AImpl") >>)) >>),
      Statement("ExpressionStatement", 5, Tagged, << >>,
          << Declarator("A", ArrayExpression(<< ObjectExpression(51, 5, << "baz" >>),
                                                Identifier("AImpl"), Identifier("B") >>)) >>),
      Statement("ExpressionStatement", 6, Tagged, << Event("g", 6) >>,
          << Declarator("A", CallExpression) >>),
      Statement("ExpressionStatement", 8, NoDoc, << >>,
          << Declarator(templatizer, ObjectExpression(81, 8, << "foo" >>)) >>),
      Statement("ExpressionStatement", 9, LookAlike, << >>,
          << Declarator("C", ObjectExpression(91, 9, << "foo" >>)) >>),
      Statement("ExpressionStatement", 10, Plain, << >>,
          << Declarator("C", ObjectExpression(101, 10, << "foo" >>)) >>),
      Statement("ExpressionStatement", 11, Tagged, << >>,
          << Declarator("", ObjectExpression(111, 11, << "foo" >>)) >>),
      Statement("ExpressionStatement", 12, Tagged, << >>,
          << Declarator("D", ObjectExpression(121, 12, << "foo", "" >>)) >>),
      Statement("ExpressionStatement", 14, Tagged, << >>,
          << Declarator("A", ArrayExpression(<< Identifier("B"), Identifier("AImpl") >>)) >>),
      Statement("ExpressionStatement", 15, Tagged, << >>,
          << Declarator("E", ObjectExpression(151, 15,
                                 << "toString", "properties", "foo" >>)) >>),
      Statement("ExpressionStatement", 16, Plain, << >>,
          << Declarator(templatizer, ObjectExpression(161, 16, << "bar" >>)) >>),
      Statement("ExpressionStatement", 17, Notes, << >>,
          << Declarator(templatizer, ObjectExpression(171, 17, << "baz" >>)) >>) }

VariableDeclarations ==
    { Statement("VariableDeclaration", 3, TaggedNamed, << >>,
          << Declarator("AImpl", ObjectExpression(31, 3, << "foo" >>)) >>),
      Statement("VariableDeclaration", 7, Tagged, << >>,
          << Declarator("a", ObjectExpression(71, 7, << "foo" >>)),
             Declarator("b", ObjectExpression(72, 7, << "bar" >>)) >>) }

\* Object literals that are no part of a declaration or an assignment
FreeLiterals == { ObjectExpression(13, 0, << "q" >>) }

\* The object literals of an expression, in the order they are visited
RECURSIVE LiteralsOf(_, _)
LiteralsOf(elements, i) ==
    IF i > Len(elements) THEN << >>
    ELSE IF elements[i].type = "ObjectExpression"
    THEN << elements[i] >> \o LiteralsOf(elements, i + 1)
    ELSE LiteralsOf(elements, i + 1)

RECURSIVE Literals(_, _)
Literals(declarations, i) ==
    IF i > Len(declarations) THEN << >>
    ELSE LET init == declarations[i].init
         IN  (IF init.type = "ObjectExpression" THEN << init >>
              ELSE LiteralsOf(init.elements, 1))
             \o Literals(declarations, i + 1)

\* The keys of the table declarationPropertyHandlers returns
handlerKeys == {"behaviors", "observers", "properties"}

\* The function-valued keys an object inherits from Object.prototype
inheritedKeys ==
    {"constructor", "hasOwnProperty", "isPrototypeOf", "propertyIsEnumerable",
     "toLocaleString", "toString", "valueOf"}

\* Nothing was thrown
NoError == [message |-> "", location |-> 0]

\* new Error(message): an error without a source location
Error(message) == [message |-> message, location |-> 0]

\* new ScannedBehavior({description, events, sourceRange}), with the demos
\* docs.annotateBehavior reads from the comment
ScannedBehavior(node) ==
    [className |-> "", description |-> node.comment, events |-> node.events,
     sourceRange |-> node.loc, properties |-> << >>, handled |-> << >>,
     behaviors |-> << >>, observers |-> << >>, demos |-> node.demos]

\* The elements of a sequence
Range(seq) == {seq[i] : i \in 1..Len(seq)}

(* The visitor's state as one value v: objects (every ScannedBehavior      *)
(* constructed, a record's identity is its index), behaviors (the Set, in  *)
(* insertion order), currentBehavior and propertyHandlers (0 for null,     *)
(* else the record the handlers are bound to), status.                     *)

\* BehaviorVisitor._startBehavior; console.assert does not throw
_startBehavior(v, behavior) ==
    [v EXCEPT !.objects = Append(@, behavior),
              !.currentBehavior = Len(v.objects) + 1]

\* BehaviorVisitor._finishBehavior: Set.add, then currentBehavior = null
_finishBehavior(v) ==
    [v EXCEPT !.behaviors = IF v.currentBehavior \in Range(@) THEN @
                            ELSE Append(@, v.currentBehavior),
              !.currentBehavior = 0]

\* Mutant: the candidate stays in progress
_abandonBehaviorNot(v) == v

\* BehaviorVisitor._abandonBehavior
_abandonBehavior(v) ==
    [v EXCEPT !.currentBehavior = 0, !.propertyHandlers = 0]

\* dedupe(array, (e) => e.name): the first element of each name, in order
dedupe(array) ==
    LET F[i \in 0..Len(array)] ==
            IF i = 0 THEN << >>
            ELSE IF \E j \in 1..(i - 1) : array[j].name = array[i].name
            THEN F[i - 1]
            ELSE Append(F[i - 1], array[i])
    IN  F[Len(array)]

\* Mutant: a new record is never merged into an emitted one
mergeBehaviorNever(v, newBehavior) ==
    [objects |-> v.objects, ret |-> newBehavior]

\* Mutant: the behaviors are concatenated and not filtered
mergeBehaviorUnfiltered(v, newBehavior) ==
    LET new == v.objects[newBehavior]
        same == {i \in 1..Len(v.behaviors) :
                    v.objects[v.behaviors[i]].className = new.className}
    IN  IF same = {} THEN [objects |-> v.objects, ret |-> newBehavior]
        ELSE LET b == v.behaviors[Least(same)]
                 behavior == v.objects[b]
                 description ==
                     IF new.description # "" /\ behavior.description # ""
                     THEN IF Len(new.description) > Len(behavior.description)
                          THEN new.description ELSE behavior.description
                     ELSE IF new.description # "" THEN new.description
                     ELSE behavior.description
                 merged ==
                     [behavior EXCEPT
                        !.description = description,
                        !.demos = @ \o new.demos,
                        !.events = dedupe(@ \o new.events),
                        !.properties = @ \o new.properties,
                        !.observers = @ \o new.observers,
                        !.behaviors = @ \o new.behaviors]
             IN  [objects |-> [v.objects EXCEPT ![b] = merged], ret |-> b]

\* Mutant: the description of the newest declaration wins
mergeBehaviorNewestDescription(v, newBehavior) ==
    LET new == v.objects[newBehavior]
        same == {i \in 1..Len(v.behaviors) :
                    v.objects[v.behaviors[i]].className = new.className}
    IN  IF same = {} THEN [objects |-> v.objects, ret |-> newBehavior]
        ELSE LET b == v.behaviors[Least(same)]
                 behavior == v.objects[b]
                 merged ==
                     [behavior EXCEPT
                        !.description = new.description,
                        !.demos = @ \o new.demos,
                        !.events = dedupe(@ \o new.events),
                        !.properties = @ \o new.properties,
                        !.observers = @ \o new.observers,
                        !.behaviors = SelectSeq(@ \o new.behaviors,
                                        LAMBDA x : indexOf(x, new.className) = -1)]
             IN  [objects |-> [v.objects EXCEPT ![b] = merged], ret |-> b]

(* BehaviorVisitor.mergeBehavior: the objects after the call and, in ret,  *)
(* the record returned.                                                    *)
mergeBehavior(v, newBehavior) ==
    LET new == v.objects[newBehavior]
        same == {i \in 1..Len(v.behaviors) :
                    v.objects[v.behaviors[i]].className = new.className}
    IN  IF same = {} THEN [objects |-> v.objects, ret |-> newBehavior]
        ELSE LET b == v.behaviors[Least(same)]
                 behavior == v.objects[b]
                 description ==
                     IF new.description # "" /\ behavior.description # ""
                     THEN IF Len(new.description) > Len(behavior.description)
                          THEN new.description ELSE behavior.description
                     ELSE IF new.description # "" THEN new.description
                     ELSE behavior.description
                 merged ==
                     [behavior EXCEPT
                        !.description = description,
                        !.demos = @ \o new.demos,
                        !.events = dedupe(@ \o new.events),
                        !.properties = @ \o new.properties,
                        !.observers = @ \o new.observers,
                        !.behaviors = SelectSeq(@ \o new.behaviors,
                                        LAMBDA x : indexOf(x, new.className) = -1)]
             IN  [objects |-> [v.objects EXCEPT ![b] = merged], ret |-> b]

\* behaviorExpression(node); the null of an unmatched switch is a call
behaviorExpression(node) ==
    IF node.type = "ExpressionStatement" THEN node.declarations[1].init
    ELSE IF node.type = "VariableDeclaration" /\ Len(node.declarations) > 0
    THEN node.declarations[1].init
    ELSE CallExpression

\* Mutant: no array is a simple behavior array
isSimpleBehaviorArrayNever(expression) == FALSE

\* isSimpleBehaviorArray(expression)
isSimpleBehaviorArray(expression) ==
    /\ expression.type = "ArrayExpression"
    /\ \A i \in 1..Len(expression.elements) :
          expression.elements[i].type \in {"MemberExpression", "Identifier"}

\* The names astValue.getIdentifierName finds among the elements
RECURSIVE Chained(_, _)
Chained(elements, i) ==
    IF i > Len(elements) THEN << >>
    ELSE (IF elements[i].name # "" THEN << elements[i].name >> ELSE << >>)
         \o Chained(elements, i + 1)

\* BehaviorVisitor._parseChainedBehaviors
_parseChainedBehaviors(v, node) ==
    LET expression == behaviorExpression(node)
        chained == Chained(expression.elements, 1)
    IN  IF expression.type = "ArrayExpression" /\ Len(chained) > 0
        THEN [v EXCEPT !.objects[v.currentBehavior].behaviors = chained]
        ELSE v

\* Mutant: the tag's name argument is not read
getTagNever(node) == ""

\* jsdoc.getTag(this.currentBehavior.jsdoc, 'polymerBehavior', 'name'):
\* the name argument of the tag, "" when there is none
getTag(node) == node.tagName

\* BehaviorVisitor._initBehavior, symbol being what getName() returns
_initBehavior(v, node, symbol) ==
    IF (node.comment = "" \/ indexOf(node.comment, "@polymerBehavior") = -1)
          /\ symbol # templatizer
    THEN v
    ELSE LET started == _startBehavior(v, ScannedBehavior(node))
             bound == [started EXCEPT !.propertyHandlers = started.currentBehavior]
             explicitName == getTag(node)
             className == IF explicitName # "" THEN explicitName ELSE symbol
             named == [bound EXCEPT !.objects[bound.currentBehavior].className = className]
             chained == _parseChainedBehaviors(named, node)
             m == mergeBehavior(chained, chained.currentBehavior)
             merged == [chained EXCEPT !.objects = m.objects,
                                       !.currentBehavior = m.ret,
                                       !.propertyHandlers = m.ret]
         IN  IF ~node.hasTag /\ symbol # templatizer THEN _abandonBehavior(bound)
             ELSE IF className = ""
             THEN [named EXCEPT !.status = "thrown",
                                !.thrown = Error("Unable to determine name for @polymerBehavior")]
             ELSE IF isSimpleBehaviorArray(behaviorExpression(node))
             THEN _finishBehavior(merged)
             ELSE merged

(* The loop of enterObjectExpression from property i on: a key that is no  *)
(* static string throws, a key of the handler table is handed to the       *)
(* handler, which works on the record it is bound to, any other key is     *)
(* added to currentBehavior.                                               *)
(* `name in this.propertyHandlers` is true of the keys of the table and of  *)
(* the keys the table inherits from Object.prototype; calling an inherited *)
(* function with the property's value does nothing to the record.          *)
RECURSIVE Fold(_, _, _)
Fold(v, node, i) ==
    IF i > Len(node.properties) THEN v
    ELSE LET name == node.properties[i]
             prop == [name |-> name, sourceRange |-> node.loc]
         IN  IF name = ""
             THEN [v EXCEPT !.status = "thrown",
                            !.thrown = [message |-> "Cant determine name for property key.",
                                       location |-> node.loc]]
             ELSE IF v.propertyHandlers = 0
             THEN [v EXCEPT !.status = "thrown", !.thrown = Error("TypeError")]
             ELSE IF name \in handlerKeys
             THEN Fold([v EXCEPT !.objects[v.propertyHandlers].handled = Append(@, prop)],
                       node, i + 1)
             ELSE IF name \in inheritedKeys
             THEN Fold(v, node, i + 1)
             ELSE Fold([v EXCEPT !.objects[v.currentBehavior].properties = Append(@, prop)],
                       node, i + 1)

\* BehaviorVisitor.enterObjectExpression on the visitor's state
FoldObjectExpression(v, node) ==
    IF v.currentBehavior = 0 THEN v
    ELSE LET folded == Fold(v, node, 1)
         IN  IF folded.status = "thrown" THEN folded ELSE _finishBehavior(folded)

\* The visitor's state, and the step to state v
Visitor ==
    [objects |-> objects, behaviors |-> behaviors,
     currentBehavior |-> currentBehavior, propertyHandlers |-> propertyHandlers,
     status |-> status, thrown |-> thrown]

Becomes(v) ==
    /\ objects' = v.objects
    /\ behaviors' = v.behaviors
    /\ currentBehavior' = v.currentBehavior
    /\ propertyHandlers' = v.propertyHandlers
    /\ status' = v.status
    /\ thrown' = v.thrown

\* The statements and free-standing literals visited so far
Statements == Cardinality({i \in 1..Len(visited) : visited[i].parent = 0})

\* The traversal may go on to the next statement
NextStatement == status = "visiting" /\ todo = << >> /\ Statements < MaxStatements

\* BehaviorVisitor.enterVariableDeclaration
enterVariableDeclaration(node) ==
    /\ NextStatement
    /\ Becomes(IF Len(node.declarations) # 1 THEN Visitor
               ELSE _initBehavior(Visitor, node, node.declarations[1].id))
    /\ visited' = Append(visited, node)
    /\ todo' = Literals(node.declarations, 1)
    /\ UNCHANGED <<avars, rvars, svars>>

\* BehaviorVisitor.enterAssignmentExpression, node being the parent
enterAssignmentExpression(node) ==
    /\ NextStatement
    /\ Becomes(_initBehavior(Visitor, node, node.declarations[1].id))
    /\ visited' = Append(visited, node)
    /\ todo' = Literals(node.declarations, 1)
    /\ UNCHANGED <<avars, rvars, svars>>

\* BehaviorVisitor.enterObjectExpression: the next literal of the statement,
\* or a free-standing one
enterObjectExpression(node) ==
    /\ status = "visiting"
    /\ IF todo # << >> THEN node = Head(todo)
       ELSE node \in FreeLiterals /\ Statements < MaxStatements
    /\ Becomes(FoldObjectExpression(Visitor, node))
    /\ visited' = Append(visited, node)
    /\ todo' = IF todo # << >> THEN Tail(todo) ELSE << >>
    /\ UNCHANGED <<avars, rvars, svars>>

\* BehaviorScanner.scan after `await visit(visitor)`: Array.from(behaviors)
scanReturns ==
    /\ status = "visiting"
    /\ todo = << >>
    /\ status' = "returned"
    /\ UNCHANGED <<objects, behaviors, currentBehavior, propertyHandlers, visited, todo,
                   thrown>>
    /\ UNCHANGED <<avars, rvars, svars>>

----------------------------------------------------------------------------
(* The editor service's channel to its child process                       *)
(*                                                                         *)
(* The parent holds a SelfChannel (an EditorServerChannel in the other     *)
(* copy of the file), the child runs the block under `if (!module.parent)`.*)
(* Node delivers the messages of one direction in the order they were      *)
(* sent.  A value that JavaScript leaves undefined is Undefined here, and  *)
(* every payload is a string.                                              *)

MaxRequests == 3        \* calls of request() by one parent
MaxForeign == 1         \* messages of a child that is not this server

Undefined == ""

\* A Request; the fields other than kind are folded into localPath
Request(kind, localPath) == [kind |-> kind, localPath |-> localPath]

\* The requests a parent makes; "rename" is a kind this server does not know
Requests ==
    { Request("init", "/base"),
      Request("getWarningsFor", "a.html"),
      Request("getWarningsFor", "b.html"),
      Request("fileChanged", "a.html"),
      Request("rename", "a.html") }

RequestWrapper(id, value) == [id |-> id, value |-> value]

ResponseWrapper(id, value) == [id |-> id, value |-> value]

Resolution(resolution) ==
    [kind |-> "resolution", resolution |-> resolution, rejection |-> Undefined]

Rejection(rejection) ==
    [kind |-> "rejection", resolution |-> Undefined, rejection |-> rejection]

(* What a child that is not this server may emit: an answer to a request   *)
(* nobody made, a value of a kind the parent does not know under an id     *)
(* nobody registered, and one under the first id.                          *)
ForeignResponses ==
    { ResponseWrapper(7, Resolution("stray")),
      ResponseWrapper(7, [kind |-> "notification", resolution |-> Undefined,
                          rejection |-> Undefined]),
      ResponseWrapper(0, [kind |-> "notification", resolution |-> Undefined,
                          rejection |-> Undefined]) }

\* makeDeferred(): the promise of a Deferred, not yet settled
makeDeferred == [state |-> "pending", value |-> Undefined]

\* deferred.resolve(value): settling a settled promise changes nothing
resolve(deferred, value) ==
    IF deferred.state = "pending" THEN [state |-> "resolved", value |-> value]
    ELSE deferred

\* deferred.reject(err)
reject(deferred, err) ==
    IF deferred.state = "pending" THEN [state |-> "rejected", value |-> err]
    ELSE deferred

\* `let server: EditorServer` before the first message: undefined
NoServer == [basedir |-> Undefined, from |-> -1]

\* new EditorServer(basedir), made for the init request with the id `from`
EditorServer(basedir, from) == [basedir |-> basedir, from |-> from]

\* Mutant: a later 'init' is answered like a request that succeeded
handleMessageInitAgain(message, serviceThrows) ==
    LET service(value) ==
            IF serviceThrows
            THEN [thrown |-> TRUE, value |-> "Error: " \o message.kind \o " failed"]
            ELSE [thrown |-> FALSE, value |-> value]
    IN  CASE message.kind \in {"getWarningsFor", "getDefinitionFor", "getDocumentationFor",
                               "getTypeaheadCompletionsFor"} ->
                service("result for " \o message.localPath)
          [] message.kind \in {"fileChanged", "clearCaches", "init"} -> service(Undefined)
          [] OTHER ->
                [thrown |-> TRUE,
                 value |-> "Error: Got unknown kind of message: " \o message.kind]

(* EditorServer.handleMessage: what the promise it returns settles to.     *)
(* serviceThrows says whether the EditorService method called rejects.     *)
handleMessage(message, serviceThrows) ==
    LET service(value) ==
            IF serviceThrows
            THEN [thrown |-> TRUE, value |-> "Error: " \o message.kind \o " failed"]
            ELSE [thrown |-> FALSE, value |-> value]
    IN  CASE message.kind = "getWarningsFor" ->
                service("warnings of " \o message.localPath)
          [] message.kind = "fileChanged" -> service(Undefined)
          [] message.kind = "init" ->
                [thrown |-> TRUE, value |-> "Error: Already initialized!"]
          [] message.kind = "getDefinitionFor" ->
                service("definition in " \o message.localPath)
          [] message.kind = "getDocumentationFor" ->
                service("documentation in " \o message.localPath)
          [] message.kind = "getTypeaheadCompletionsFor" ->
                service("completions in " \o message.localPath)
          [] message.kind = "clearCaches" -> service(Undefined)
          [] OTHER ->
                [thrown |-> TRUE,
                 value |-> "Error: Got unknown kind of message: " \o message.kind]

\* getSettledValue(message): try / catch around handleMessage
getSettledValue(message, serviceThrows) ==
    LET outcome == handleMessage(message, serviceThrows)
    IN  IF outcome.thrown THEN Rejection(outcome.value)
        ELSE Resolution(outcome.value)

\* Mutant: the response settles the oldest request still pending
_handleResponseOldest(outstanding, response) ==
    LET pending == {i \in DOMAIN outstanding : outstanding[i].state = "pending"}
        oldest == CHOOSE i \in pending : \A j \in pending : i <= j
    IN  IF pending = {} THEN [outstanding |-> outstanding, thrown |-> FALSE]
        ELSE IF response.value.kind = "resolution"
        THEN [outstanding |-> [outstanding EXCEPT ![oldest] =
                                  resolve(@, response.value.resolution)],
              thrown |-> FALSE]
        ELSE IF response.value.kind = "rejection"
        THEN [outstanding |-> [outstanding EXCEPT ![oldest] =
                                  reject(@, response.value.rejection)],
              thrown |-> FALSE]
        ELSE [outstanding |-> outstanding, thrown |-> TRUE]

(* SelfChannel._handleResponse on the map _outstandingRequests: the map    *)
(* after the call, and whether the call threw.                             *)
_handleResponse(outstanding, response) ==
    IF response.id \notin DOMAIN outstanding
    THEN [outstanding |-> outstanding, thrown |-> FALSE]
    ELSE IF response.value.kind = "resolution"
    THEN [outstanding |-> [outstanding EXCEPT ![response.id] =
                              resolve(@, response.value.resolution)],
          thrown |-> FALSE]
    ELSE IF response.value.kind = "rejection"
    THEN [outstanding |-> [outstanding EXCEPT ![response.id] =
                              reject(@, response.value.rejection)],
          thrown |-> FALSE]
    ELSE [outstanding |-> outstanding, thrown |-> TRUE]

(* SelfChannel.request(req), up to its await: the id is taken, the         *)
(* Deferred registered, and child.send called.  After dispose() the send   *)
(* fails and the promise request() returned rejects; the Deferred stays.   *)
request(req) ==
    /\ client = "running"
    /\ _idCounter < MaxRequests
    /\ LET id == _idCounter
           wrapper == RequestWrapper(id, req)
       IN  /\ _idCounter' = id + 1
           /\ _outstandingRequests' =
                 [i \in DOMAIN _outstandingRequests \cup {id} |->
                     IF i = id THEN makeDeferred ELSE _outstandingRequests[i]]
           /\ sent' = Append(sent, wrapper)
           /\ childInbox' = IF server = "killed" THEN childInbox
                            ELSE Append(childInbox, wrapper)
    /\ UNCHANGED <<parentInbox, server, handling, answers, foreign, client>>
    /\ UNCHANGED editorServer
    /\ UNCHANGED <<avars, bvars, svars>>

\* The parent's 'message' listener: (m) => this._handleResponse(m).  An
\* error thrown by a listener is uncaught and ends the parent.
receiveResponse ==
    /\ client = "running"
    /\ parentInbox # << >>
    /\ LET after == _handleResponse(_outstandingRequests, Head(parentInbox))
       IN  /\ _outstandingRequests' = after.outstanding
           /\ client' = IF after.thrown THEN "crashed" ELSE client
    /\ parentInbox' = Tail(parentInbox)
    /\ UNCHANGED <<_idCounter, childInbox, server, handling, sent, answers, foreign>>
    /\ UNCHANGED editorServer
    /\ UNCHANGED <<avars, bvars, svars>>

(* The child's 'message' listeners.  The listener of process.once takes    *)
(* the first message: anything but 'init' is answered with a rejection and *)
(* leaves the child without a listener ("deaf"), 'init' makes the server   *)
(* and installs the listener that calls getSettledValue.                   *)
receiveRequest ==
    /\ server # "killed"
    /\ childInbox # << >>
    /\ LET message == Head(childInbox)
           response == ResponseWrapper(message.id,
                          Rejection("Expected first message to be 'init', got "
                                    \o message.value.kind))
       IN  CASE server = "starting" /\ message.value.kind # "init" ->
                  /\ parentInbox' = Append(parentInbox, response)
                  /\ answers' = Append(answers, [request |-> message,
                                                 response |-> response])
                  /\ server' = "deaf"
                  /\ UNCHANGED <<handling, editorServer>>
             [] server = "starting" /\ message.value.kind = "init" ->
                  /\ server' = "serving"
                  /\ editorServer' = EditorServer(message.value.localPath, message.id)
                  /\ UNCHANGED <<parentInbox, answers, handling>>
             [] server = "serving" ->
                  /\ handling' = handling \cup {message}
                  /\ UNCHANGED <<parentInbox, answers, server, editorServer>>
             [] OTHER ->
                  UNCHANGED <<parentInbox, answers, server, handling, editorServer>>
    /\ childInbox' = Tail(childInbox)
    /\ UNCHANGED <<_idCounter, _outstandingRequests, sent, foreign, client>>
    /\ UNCHANGED <<avars, bvars, svars>>

\* The child's listener after `await getSettledValue(request.value)`:
\* process.send({id: request.id, value: result})
sendResponse(message, serviceThrows) ==
    /\ server = "serving"
    /\ message \in handling
    /\ LET response == ResponseWrapper(message.id,
                          getSettledValue(message.value, serviceThrows))
       IN  /\ parentInbox' = Append(parentInbox, response)
           /\ answers' = Append(answers, [request |-> message, response |-> response])
    /\ handling' = handling \ {message}
    /\ UNCHANGED <<_idCounter, _outstandingRequests, childInbox, server, sent, foreign,
                   client>>
    /\ UNCHANGED editorServer
    /\ UNCHANGED <<avars, bvars, svars>>

\* A child that is not this server emits a message
foreignMessage(response) ==
    /\ foreign < MaxForeign
    /\ server # "killed"
    /\ foreign' = foreign + 1
    /\ parentInbox' = Append(parentInbox, response)
    /\ UNCHANGED <<_idCounter, _outstandingRequests, childInbox, server, handling, sent,
                   answers, client>>
    /\ UNCHANGED editorServer
    /\ UNCHANGED <<avars, bvars, svars>>

\* SelfChannel.dispose(): child.kill()
dispose ==
    /\ client = "running"
    /\ server # "killed"
    /\ server' = "killed"
    /\ handling' = {}
    /\ childInbox' = << >>
    /\ UNCHANGED <<_idCounter, _outstandingRequests, parentInbox, sent, answers, foreign,
                   client>>
    /\ UNCHANGED editorServer
    /\ UNCHANGED <<avars, bvars, svars>>

----------------------------------------------------------------------------
(* The HTML style scanner (src/html/html-style-scanner.ts).                *)
(*                                                                         *)
(* The visitor is called with the nodes of the document one after the      *)
(* other; a node is a record of what the predicates and dom5 read of it.   *)

\* nodes in one document
MaxNodes == 3

\* The urls of the documents scanned
StyleDocuments == {"index.html", "components/app/app.html"}

\* <link rel=... href=...>; rel is the attribute split at white space
Link(rel, href, loc) ==
    [nodeName |-> "link", rel |-> rel, href |-> href, hasType |-> FALSE,
     type |-> "", textContent |-> "", comment |-> NoComment, loc |-> loc]

\* <style> or <style type=...> with its text and the comment before it
Style(hasType, type, textContent, comment, loc) ==
    [nodeName |-> "style", rel |-> << >>, href |-> "", hasType |-> hasType,
     type |-> type, textContent |-> textContent, comment |-> comment, loc |-> loc]

\* Any other element
Element(nodeName, loc) ==
    [nodeName |-> nodeName, rel |-> << >>, href |-> "", hasType |-> FALSE,
     type |-> "", textContent |-> "", comment |-> NoComment, loc |-> loc]

StyleNodes ==
    { Link(<< "stylesheet" >>, "style.css", 1),
      Link(<< "alternate", "stylesheet" >>, "theme/dark.css", 2),
      Link(<< "stylesheet" >>, "/abs.css", 3),
      Link(<< "import" >>, "dep.html", 4),
      Style(FALSE, "", "a {}", "Styles.", 5),
      Style(TRUE, "text/css", "b {}", NoComment, 6),
      Style(TRUE, "text/less", "c {}", NoComment, 7),
      Element("script", 8) }

\* The documents: a url and up to MaxNodes nodes in document order
RECURSIVE NodeLists(_)
NodeLists(n) ==
    IF n = 0 THEN { << >> }
    ELSE LET shorter == NodeLists(n - 1)
         IN  shorter \cup {Append(list, node) : list \in shorter, node \in StyleNodes}

\* const isStyleElement
isStyleElement(node) ==
    /\ node.nodeName = "style"
    /\ ~node.hasType \/ node.type = "text/css"

\* const isStyleLink
isStyleLink(node) ==
    /\ node.nodeName = "link"
    /\ "stylesheet" \in Range(node.rel)

\* const isStyleNode
isStyleNode(node) == isStyleElement(node) \/ isStyleLink(node)

\* path up to and with its last slash
dirname(path) ==
    LET slashes == {i \in 1..Len(path) : SubSeq(path, i, i) = "/"}
    IN  IF slashes = {} THEN ""
        ELSE SubSeq(path, 1, CHOOSE i \in slashes : \A j \in slashes : j <= i)

(* url.resolve(from, to) for a relative url `from` and a `to` that is a    *)
(* path from the root or a path without dot segments.                      *)
resolveUrl(from, to) ==
    IF SubSeq(to, 1, 1) = "/" THEN to ELSE dirname(from) \o to

\* new ScannedImport(type, url, sourceRange, urlSourceRange)
ScannedImport(type, url, sourceRange, urlSourceRange) ==
    [kind |-> "import", type |-> type, url |-> url, sourceRange |-> sourceRange,
     urlSourceRange |-> urlSourceRange, scannedDocument |-> 0]

\* The callback HtmlStyleScanner.scan passes to visit: the features after
\* the call for `node`
visitor(url, scanned, node) ==
    IF ~isStyleNode(node) THEN scanned
    ELSE IF node.nodeName = "link"
    THEN LET href == node.href
             importUrl == resolveUrl(url, href)
         IN  Append(scanned,
                    ScannedImport("html-style", importUrl, node.loc, << node.loc, "href" >>))
    ELSE Append(scanned, InlineParsedDocument("css", node.loc, node.comment))

\* visit calls the callback with the next node of the document
visitNode ==
    /\ styleScan = "visiting"
    /\ nodesVisited < Len(htmlDocument.nodes)
    /\ styleFeatures' = visitor(htmlDocument.url, styleFeatures,
                                htmlDocument.nodes[nodesVisited + 1])
    /\ nodesVisited' = nodesVisited + 1
    /\ UNCHANGED <<htmlDocument, styleScan>>
    /\ UNCHANGED <<avars, bvars, rvars>>

\* visit is done: scan returns the features
returnFeatures ==
    /\ styleScan = "visiting"
    /\ nodesVisited = Len(htmlDocument.nodes)
    /\ styleScan' = "returned"
    /\ UNCHANGED <<htmlDocument, styleFeatures, nodesVisited>>
    /\ UNCHANGED <<avars, bvars, rvars>>

----------------------------------------------------------------------------
(* The specifications *)

\* No document is scanned for its styles
StyleIdle ==
    /\ htmlDocument = [url |-> "", nodes |-> << >>]
    /\ styleFeatures = << >>
    /\ nodesVisited = 0
    /\ styleScan = "idle"

AnalyzerInit ==
    /\ _parsedDocuments = [u \in URLS |-> 0]
    /\ _scannedDocuments = [u \in URLS |-> 0]
    /\ scans = << >>
    /\ loads = << >>
    /\ requests = << >>
    /\ clearMark = [n |-> 0, scans |-> 0, loads |-> 0, requests |-> 0]
    /\ turn = "caller"

ChannelInit ==
    /\ _idCounter = 0
    /\ _outstandingRequests = << >>
    /\ childInbox = << >>
    /\ parentInbox = << >>
    /\ server = "starting"
    /\ handling = {}
    /\ sent = << >>
    /\ answers = << >>
    /\ foreign = 0
    /\ client = "running"
    /\ editorServer = NoServer

VisitorInit ==
    /\ objects = << >>
    /\ behaviors = << >>
    /\ currentBehavior = 0
    /\ propertyHandlers = 0
    /\ visited = << >>
    /\ todo = << >>
    /\ status = "visiting"
    /\ thrown = NoError

\* An Analyzer and its caller
Init ==
    /\ roots \in RootSets
    /\ AnalyzerInit
    /\ VisitorInit
    /\ ChannelInit
    /\ StyleIdle

\* The steps the event loop takes by itself
Internal ==
    \/ LoadTick(FirstLoad)
    \/ ScanTick(FirstScan)
    \/ ScanLoaded(FirstScan)
    \/ \E i \in 1..3 : EdgeSettle(FirstScan, i)
    \/ ScanFinish(FirstScan)
    \/ \E l \in 1..Len(loads) : LoadIO(l)

Next ==
    \/ \E url \in roots, withContents \in BOOLEAN : AnalyzeRoot(url, withContents)
    \/ ClearCaches
    \/ Internal

Spec == Init /\ [][Next]_vars

\* One scan of a script by the behavior scanner
InitBehavior ==
    /\ roots = {}
    /\ AnalyzerInit
    /\ VisitorInit
    /\ ChannelInit
    /\ StyleIdle

NextBehavior ==
    \/ \E node \in VariableDeclarations : enterVariableDeclaration(node)
    \/ \E node \in Assignments : enterAssignmentExpression(node)
    \/ \E node \in FreeLiterals \cup Range(todo) : enterObjectExpression(node)
    \/ scanReturns

SpecBehavior == InitBehavior /\ [][NextBehavior]_vars

\* A SelfChannel just constructed, its child, and the caller of request()
InitChannel ==
    /\ roots = {}
    /\ AnalyzerInit
    /\ VisitorInit
    /\ ChannelInit
    /\ StyleIdle

NextChannel ==
    \/ \E req \in Requests : request(req)
    \/ receiveRequest
    \/ \E message \in handling, serviceThrows \in BOOLEAN :
          sendResponse(message, serviceThrows)
    \/ receiveResponse
    \/ \E response \in ForeignResponses : foreignMessage(response)
    \/ dispose

SpecChannel == InitChannel /\ [][NextChannel]_vars

\* RemoteEditorService.constructor: the 'init' request is the first request
\* of the channel
RemoteEditorService ==
    /\ _idCounter = 0
    /\ request(Request("init", "/base"))

\* The methods of RemoteEditorService, each a request of its own kind
remoteMethod(req) ==
    /\ _idCounter > 0
    /\ req.kind \in {"getWarningsFor", "fileChanged", "getDefinitionFor",
                     "getDocumentationFor", "getTypeaheadCompletionsFor", "clearCaches"}
    /\ request(req)

\* Some EditorService call of the child settles and its answer is sent
serviceSettles ==
    \E message \in handling, serviceThrows \in BOOLEAN :
        sendResponse(message, serviceThrows)

(* A RemoteEditorService whose child stays alive and is the only sender on *)
(* the channel.  Node delivers every message sent to a living process, and *)
(* the EditorService methods are taken to settle: the three steps that     *)
(* depend only on that are weakly fair.                                    *)
NextRemote ==
    \/ RemoteEditorService
    \/ \E req \in Requests : remoteMethod(req)
    \/ receiveRequest
    \/ serviceSettles
    \/ receiveResponse

SpecRemote ==
    /\ InitChannel
    /\ [][NextRemote]_vars
    /\ WF_vars(receiveRequest)
    /\ WF_vars(serviceSettles)
    /\ WF_vars(receiveResponse)

\* One call of HtmlStyleScanner.scan
InitStyle ==
    /\ roots = {}
    /\ AnalyzerInit
    /\ VisitorInit
    /\ ChannelInit
    /\ htmlDocument \in [url : StyleDocuments, nodes : NodeLists(MaxNodes)]
    /\ styleFeatures = << >>
    /\ nodesVisited = 0
    /\ styleScan = "visiting"

NextStyle ==
    \/ visitNode
    \/ returnFeatures

SpecStyle == InitStyle /\ [][NextStyle]_vars

----------------------------------------------------------------------------
(* What the claims are stated in *)

Reqs == 1..Len(requests)
Scans == 1..Len(scans)
Loads == 1..Len(loads)

\* The promise a request awaits: analyzeRoot settles as it does
Result(r) == scans[requests[r].scan]

\* The promises of _scanResolved for a url
ScansOf(url) == {s \in Scans : ~scans[s].inline /\ scans[s].url = url}
LoadsOf(url) == {l \in Loads : loads[l].url = url}

\* The number of loader.load calls made for a url
LoadCalls(url) ==
    Cardinality({l \in LoadsOf(url) :
                   loads[l].provided = NoContents /\ loads[l].pc # "tick"})

\* Nothing is left to run: no microtask and no pending I/O
Quiescent == ~MicrotaskPending /\ \A l \in Loads : loads[l].pc # "io"

\* ScannedDocument.dependencies of a fulfilled scan
Dependencies(s) ==
    {scans[s].edges[i].target :
        i \in {j \in 1..Len(scans[s].edges) : scans[s].edges[j].state = "resolved"}}

\* The ScannedDocuments of the document graph rooted at s
RECURSIVE Graph(_, _)
Graph(frontier, seen) ==
    IF frontier = {} THEN seen
    ELSE LET s == CHOOSE x \in frontier : TRUE
         IN  Graph((frontier \cup Dependencies(s)) \ (seen \cup {s}), seen \cup {s})

DocumentGraph(r) == Graph({requests[r].scan}, {})

\* The cache entries of a url were evicted at some time
EvictedEver(url) ==
    \/ clearMark.n > 0
    \/ \E r \in Reqs : requests[r].url = url /\ requests[r].contents # NoContents

----------------------------------------------------------------------------
(* C1: analyzing a root of an import cycle (a.html imports b.html imports  *)
(* a.html) terminates: once nothing is left to run, each such request is   *)
(* fulfilled with a graph that holds a.html and b.html once each.          *)
C1_CycleTerminates ==
    \A r \in Reqs :
        (requests[r].url \in {A_html, B_html} /\ Quiescent) =>
            /\ Result(r).pc = "fulfilled"
            /\ \A u \in {A_html, B_html} :
                 Cardinality({s \in DocumentGraph(r) :
                                scans[s].url = u /\ scans[s].pc = "fulfilled"}) = 1

C3_OneComputationPerUrl ==
    /\ \A s1, s2 \in Scans :
         (s1 # s2 /\ ~scans[s1].inline /\ ~scans[s2].inline
            /\ scans[s1].url = scans[s2].url)
              => Settled(scans[s1]) \/ Settled(scans[s2])
    /\ \A l1, l2 \in Loads :
         (l1 # l2 /\ loads[l1].url = loads[l2].url)
              => Settled(loads[l1]) \/ Settled(loads[l2])

(* C4: a request made with contents is fulfilled with a document parsed    *)
(* from exactly those contents.                                            *)
C4_FreshContentsUsed ==
    \A r \in Reqs :
        (requests[r].contents # NoContents /\ Result(r).pc = "fulfilled")
            => loads[Result(r).load].contents = requests[r].contents

(* C5: a call with fresh contents for a url evicts that url's two cache    *)
(* entries and no other: every other url keeps its entries and no load     *)
(* promise changes; the url gets a new scan promise and is parsed again    *)
(* after the call; and no url is loaded from the loader more than once     *)
(* unless the caches were cleared.                                         *)
C5_FreshCall ==
    /\ Len(requests') = Len(requests) + 1
    /\ requests'[Len(requests')].contents # NoContents

C5_Frame ==
    C5_FreshCall =>
        LET u == requests'[Len(requests')].url
        IN  /\ \A v \in URLS \ {u} :
                 /\ _parsedDocuments'[v] = _parsedDocuments[v]
                 /\ _scannedDocuments'[v] = _scannedDocuments[v]
            /\ _parsedDocuments'[u] = 0
            /\ Len(scans') = Len(scans) + 1
            /\ _scannedDocuments'[u] = Len(scans')
            /\ loads' = loads

C5_Served ==
    /\ \A v \in URLS : LoadCalls(v) <= 1 + clearMark.n
    /\ \A r \in Reqs :
         (requests[r].contents # NoContents /\ Result(r).load # 0)
            => Result(r).load > requests[r].loads

C5_EvictsOnlyOwnEntries == [][C5_Frame]_vars /\ []C5_Served

\* r.html was analyzed, then analyzed again with fresh contents: it was
\* parsed twice and v.html was loaded once.
C5_Witness ==
    \E r1, r2 \in Reqs :
        /\ r1 < r2
        /\ requests[r1].url = R_html /\ requests[r2].url = R_html
        /\ requests[r1].contents = NoContents
        /\ requests[r2].contents # NoContents
        /\ Result(r1).pc = "fulfilled" /\ Result(r2).pc = "fulfilled"
        /\ Result(r2).load # Result(r1).load
        /\ loads[Result(r2).load].contents = requests[r2].contents
        /\ V_html \in {scans[s].url : s \in DocumentGraph(r2)}
        /\ LoadCalls(V_html) = 1
        /\ Cardinality(ScansOf(V_html)) = 1

(* C6: clear caches empties both maps, and a request made after it is      *)
(* fulfilled with a graph whose every document was scanned, parsed and     *)
(* (unless its contents were supplied) loaded after the clear.             *)
C6_ClearStep ==
    clearMark'.n # clearMark.n =>
        \A u \in URLS : _parsedDocuments'[u] = 0 /\ _scannedDocuments'[u] = 0

C6_Reloaded ==
    \A r \in Reqs :
        (clearMark.n > 0 /\ r > clearMark.requests /\ Result(r).pc = "fulfilled")
            => \A s \in DocumentGraph(r) :
                 ~scans[s].inline =>
                    /\ s > clearMark.scans
                    /\ scans[s].load > clearMark.loads
                    /\ loads[scans[s].load].provided = NoContents
                          => loads[scans[s].load].contents = DiskContents

C6_ClearForcesReload == [][C6_ClearStep]_vars /\ []C6_Reloaded

\* r.html was analyzed, the caches were cleared, and r.html was analyzed
\* again: r.html, v.html and x.txt were each loaded twice.
C6_Witness ==
    \E r1, r2 \in Reqs :
        /\ clearMark.n > 0
        /\ r1 <= clearMark.requests /\ clearMark.requests < r2
        /\ requests[r1].url = R_html /\ requests[r2].url = R_html
        /\ requests[r1].contents = NoContents /\ requests[r2].contents = NoContents
        /\ Result(r1).pc = "fulfilled" /\ Result(r2).pc = "fulfilled"
        /\ LoadCalls(R_html) = 2
        /\ LoadCalls(V_html) = 2
        /\ LoadCalls(X_txt) = 2

\* The import edges of scan s that have settled
SettledImports(s) ==
    {i \in 1..Len(scans[s].edges) :
        scans[s].edges[i].kind = "import" /\ scans[s].edges[i].state # "pending"}

\* The feature and the resolved target url of edge i of scan s
FeatureOf(s, i) == scan(scans[s].url)[scans[s].edges[i].feature]

TargetUrl(s, i) == _resolveUrl(FeatureOf(s, i).url)

\* The could-not-load warnings scan s holds for edge i
WarningsFor(s, i) ==
    {w \in 1..Len(scans[s].warnings) :
        /\ scans[s].warnings[w].code = "could-not-load"
        /\ scans[s].warnings[w].sourceRange = FeatureOf(s, i).sourceRange}

\* Edge i of scan s was dropped: no warning, no dependency
Dropped(s, i) ==
    /\ scans[s].edges[i].state = "dropped"
    /\ WarningsFor(s, i) = {}
    /\ scans[s].edges[i].target \notin Dependencies(s)

\* A scan that has dispatched its dependencies is only ever rejected by an
\* inline document
InlineOnlyRejects(s) ==
    (scans[s].pc = "rejected" /\ scans[s].edges # << >>)
        => \E i \in 1..Len(scans[s].edges) :
              scans[s].edges[i].kind = "inline" /\ scans[s].edges[i].state = "threw"

(* C7 as stated: every settled import edge whose target's extension has no *)
(* registered parser is dropped without a warning and without a            *)
(* dependency.                                                             *)
C7_UnknownTypeDropped ==
    \A s \in Scans : \A i \in SettledImports(s) :
        extname(TargetUrl(s, i)) \notin _parsers => Dropped(s, i)

(* C7 amended: every settled import edge whose target the loader loads and *)
(* whose extension has no registered parser is dropped without a warning   *)
(* and without a dependency, and no import edge rejects the scan.          *)
C7_LoadableUnknownTypeDropped ==
    \A s \in Scans :
        /\ InlineOnlyRejects(s)
        /\ \A i \in SettledImports(s) :
             (extname(TargetUrl(s, i)) \notin _parsers
                /\ canLoad(TargetUrl(s, i)) /\ loadSucceeds(TargetUrl(s, i)))
                   => Dropped(s, i)

\* r.html is scanned: its import of x.txt is dropped, its import of v.html
\* is resolved, it has no warning.
C7_Witness ==
    \E s \in Scans :
        /\ scans[s].url = R_html /\ scans[s].pc = "fulfilled"
        /\ scans[s].warnings = << >>
        /\ \E i, j \in SettledImports(s) :
             /\ TargetUrl(s, i) = X_txt /\ Dropped(s, i)
             /\ TargetUrl(s, j) = V_html /\ scans[s].edges[j].state = "resolved"

(* C8: every settled import edge whose target promise was rejected, unless *)
(* rejected because the target's own type has no registered parser, has    *)
(* exactly one could-not-load warning of severity ERROR on the import's    *)
(* sourceRange and no dependency.                                          *)
C8_FailedImportWarned ==
    \A s \in Scans : \A i \in SettledImports(s) :
        LET target == scans[scans[s].edges[i].target]
        IN  (target.pc = "rejected"
               /\ ~(target.err = "NoKnownParserError"
                      /\ extname(target.url) \notin _parsers))
            => /\ scans[s].edges[i].state = "warned"
               /\ Cardinality(WarningsFor(s, i)) = 1
               /\ \A w \in WarningsFor(s, i) : scans[s].warnings[w].severity = "ERROR"
               /\ scans[s].edges[i].target \notin Dependencies(s)

\* The document a fulfilled request returns is whole: every ScannedDocument
\* of its graph is fulfilled, parsed, and has no dependency left pending.
FullyFormed(r) ==
    \A s \in DocumentGraph(r) :
        /\ scans[s].pc = "fulfilled"
        /\ scans[s].load # 0
        /\ loads[scans[s].load].pc = "fulfilled"
        /\ \A i \in 1..Len(scans[s].edges) : scans[s].edges[i].state # "pending"

(* C9: a request for a url the loader cannot load, or whose extension has  *)
(* no registered parser, is never fulfilled and is rejected once nothing   *)
(* is left to run; loader.load is never called for a url the loader cannot *)
(* load; and a fulfilled request returns a whole document.                 *)
C9_FailsOrWhole ==
    /\ \A u \in URLS : ~canLoad(u) => LoadCalls(u) = 0 /\ LoadsOf(u) = {}
    /\ \A r \in Reqs :
         /\ (~canLoad(requests[r].url) \/ extname(requests[r].url) \notin _parsers)
               => /\ Result(r).pc # "fulfilled"
                  /\ Quiescent => Result(r).pc = "rejected"
         /\ Result(r).pc = "fulfilled" => FullyFormed(r)

\* n.txt was requested with contents and x.txt without: both requests were
\* rejected.
C9_Witness ==
    \E r1, r2 \in Reqs :
        /\ requests[r1].url = N_txt /\ requests[r1].contents # NoContents
        /\ Result(r1).pc = "rejected" /\ Result(r1).err = "CantLoad"
        /\ requests[r2].url = X_txt
        /\ Result(r2).pc = "rejected" /\ Result(r2).err = "NoKnownParserError"

(* C10: in every state of a behavior scan no two records of the emitted    *)
(* set share a className, and no record is in the set twice.               *)
C10_ClassNameUnique ==
    \A i, j \in 1..Len(behaviors) :
        i # j => /\ behaviors[i] # behaviors[j]
                 /\ objects[behaviors[i]].className # objects[behaviors[j]].className

\* Two declarations of A were visited with their object literals, and the
\* emitted set holds one record A with the properties of both.
C10_Witness ==
    /\ status = "returned"
    /\ \E i, j \in 1..Len(visited) :
         /\ i < j
         /\ visited[i].parent = 0 /\ visited[i].loc = 1
         /\ visited[j].parent = 0 /\ visited[j].loc = 2
    /\ Len(behaviors) = 1
    /\ objects[behaviors[1]].className = "A"
    /\ {"foo", "bar"} \subseteq
          {objects[behaviors[1]].properties[k].name :
              k \in 1..Len(objects[behaviors[1]].properties)}

----------------------------------------------------------------------------
(* What the claims about the behavior scanner are stated in *)

\* The nodes visited that are declarations or assignments
IsDeclaration(node) ==
    node.parent = 0 /\ node.type \in {"ExpressionStatement", "VariableDeclaration"}

\* What getName() returns for a declaration
SymbolOf(node) == node.declarations[1].id

\* The candidate test of _initBehavior on a single-binding declaration
Candidate(node) ==
    /\ IsDeclaration(node)
    /\ Len(node.declarations) = 1
    /\ \/ node.comment # "" /\ indexOf(node.comment, "@polymerBehavior") # -1
       \/ SymbolOf(node) = templatizer

\* explicitName || symbol
ClassNameOf(node) == IF node.tagName # "" THEN node.tagName ELSE SymbolOf(node)

\* A declaration accepted as a behavior: tag confirmed or sentinel name,
\* and a name determined
Accepted(node) ==
    /\ Candidate(node)
    /\ node.hasTag \/ SymbolOf(node) = templatizer
    /\ ClassNameOf(node) # ""

\* The places in `visited` of the accepted declarations of className c
DeclarationsOf(c) ==
    {i \in 1..Len(visited) : Accepted(visited[i]) /\ ClassNameOf(visited[i]) = c}

\* The emitted records of className c
Emitted(c) == {b \in Range(behaviors) : objects[b].className = c}

\* The keys of a declaration's object literal that no handler takes, and
\* those a handler takes
OwnKeys(node) ==
    LET literals == Literals(node.declarations, 1)
    IN  IF literals = << >> THEN {} ELSE Range(literals[1].properties)

\* The place of a declaration's object literal, 0 when it has none
OwnLiteral(node) ==
    LET literals == Literals(node.declarations, 1)
    IN  IF literals = << >> THEN 0 ELSE literals[1].loc

\* The demos of the declarations at the places i..n of `visited` that are
\* in the set D, in order
RECURSIVE DemosFrom(_, _)
DemosFrom(D, i) ==
    IF i > Len(visited) THEN << >>
    ELSE (IF i \in D THEN visited[i].demos ELSE << >>) \o DemosFrom(D, i + 1)

\* The last entry of the given name in a sequence of properties
LastOf(properties, name) ==
    properties[CHOOSE k \in 1..Len(properties) :
                  /\ properties[k].name = name
                  /\ \A m \in (k + 1)..Len(properties) : properties[m].name # name]

\* Record b holds what the declarations at the places D of `visited` made
HoldsAll(b, D) ==
    LET behavior == objects[b]
        names == {behavior.properties[k].name : k \in 1..Len(behavior.properties)}
    IN  /\ \A d \in D :
             \* the properties of each declaration, the later one's on top
             /\ OwnKeys(visited[d]) \ handlerKeys \subseteq names
             /\ \A name \in OwnKeys(visited[d]) \ handlerKeys :
                  (\A d2 \in D : d2 > d => name \notin OwnKeys(visited[d2]))
                     => LastOf(behavior.properties, name).sourceRange
                           = OwnLiteral(visited[d])
             \* the keys the handlers take, observers among them
             /\ \A name \in OwnKeys(visited[d]) \cap handlerKeys :
                  \E k \in 1..Len(behavior.handled) :
                      /\ behavior.handled[k].name = name
                      /\ behavior.handled[k].sourceRange = OwnLiteral(visited[d])
             \* each event, by name, as the first declaration that has it gave it
             /\ \A e \in Range(visited[d].events) :
                  (\A d2 \in D : d2 < d =>
                       \A e2 \in Range(visited[d2].events) : e2.name # e.name)
                     => e \in Range(behavior.events)
        /\ \A k, m \in 1..Len(behavior.events) :
             k # m => behavior.events[k].name # behavior.events[m].name
        /\ behavior.demos = DemosFrom(D, 1)

(* C11: when the scan returns, any two accepted declarations of one        *)
(* className have exactly one record of that className in the result, and  *)
(* it holds the properties of the declarations of that className (the      *)
(* later declaration's on top), their events de-duplicated by name with    *)
(* the first occurrence kept, and their demos and handled keys in          *)
(* declaration order.                                                      *)
C11_MergedIntoOne ==
    status = "returned" =>
        \A i, j \in 1..Len(visited) :
            (i < j /\ Accepted(visited[i]) /\ Accepted(visited[j])
               /\ ClassNameOf(visited[i]) = ClassNameOf(visited[j]))
            => LET c == ClassNameOf(visited[i])
               IN  /\ Cardinality(Emitted(c)) = 1
                   /\ \A b \in Emitted(c) : HoldsAll(b, DeclarationsOf(c))

\* A declaration whose initializer is an array of references only
SimpleArrayDeclaration(node) ==
    /\ Accepted(node)
    /\ behaviorExpression(node).type = "ArrayExpression"
    /\ \A k \in 1..Len(behaviorExpression(node).elements) :
          behaviorExpression(node).elements[k].type \in {"Identifier", "MemberExpression"}

\* The record of a simple-array declaration is in the emitted set, with the
\* array's names in source order as its behaviors and no property
EmittedAsList(node) ==
    /\ Emitted(ClassNameOf(node)) # {}
    /\ \A b \in Emitted(ClassNameOf(node)) :
          /\ objects[b].behaviors = Chained(behaviorExpression(node).elements, 1)
          /\ objects[b].properties = << >>
          /\ objects[b].handled = << >>

(* C12 as stated: from the visit of a simple-array declaration on, its     *)
(* record is in the emitted set with the array's names as behaviors and    *)
(* without properties, whatever else is visited.                           *)
C12_SimpleArrayEmitted ==
    \A i \in 1..Len(visited) :
        SimpleArrayDeclaration(visited[i]) => EmittedAsList(visited[i])

(* C12 amended: from the visit of a simple-array declaration on, and       *)
(* while it is the only accepted declaration of its className visited,     *)
(* its record is in the emitted set with the array's names as behaviors    *)
(* and without properties, whatever else is visited; right after the       *)
(* visit no behavior is in progress.                                       *)
C12_LoneSimpleArrayEmitted ==
    \A i \in 1..Len(visited) :
        (SimpleArrayDeclaration(visited[i])
           /\ DeclarationsOf(ClassNameOf(visited[i])) = {i})
        => /\ EmittedAsList(visited[i])
           /\ i = Len(visited) => currentBehavior = 0

\* B = [A, AImpl] was visited, then a free object literal, then the scan
\* returned: B is in the result with behaviors A, AImpl and no property.
C12_Witness ==
    /\ status = "returned"
    /\ \E i \in 1..Len(visited) :
         /\ SimpleArrayDeclaration(visited[i])
         /\ ClassNameOf(visited[i]) = "B"
         /\ i < Len(visited)
         /\ visited[i + 1] \in FreeLiterals
    /\ \E b \in Emitted("B") :
         objects[b].behaviors = << "A", "AImpl" >> /\ objects[b].properties = << >>

\* A variable declaration the ambiguity guard of enterVariableDeclaration
\* turns away
MultiBinding(node) ==
    node.type = "VariableDeclaration" /\ Len(node.declarations) # 1

\* The statement an object literal is part of
ParentStatement(node) ==
    CHOOSE statement \in VariableDeclarations \cup Assignments :
        statement.loc = node.parent

\* The node a step visits is a multi-binding declaration or one of its
\* object literals
VisitsMultiBinding ==
    /\ Len(visited') = Len(visited) + 1
    /\ LET node == visited'[Len(visited')]
       IN  \/ MultiBinding(node)
           \/ node.parent # 0 /\ MultiBinding(ParentStatement(node))

(* C13: a step that visits a variable declaration of two or more bindings, *)
(* or one of its object literals, adds no record to the emitted set,       *)
(* whatever was visited before.                                            *)
C13_MultiBindingEmitsNothing ==
    [][VisitsMultiBinding => behaviors' = behaviors]_vars

----------------------------------------------------------------------------
(* What the claims about the channel are stated in *)

\* The step in which the parent's listener takes the next response
Delivered ==
    /\ client = "running"
    /\ parentInbox # << >>
    /\ parentInbox' = Tail(parentInbox)

\* No two requests handed to child.send carry the same id
UniqueIds ==
    \A i, j \in 1..Len(sent) : i # j => sent[i].id # sent[j].id

\* A request handed to child.send, or on its way to the child, is registered
RegisteredWhenSent ==
    /\ \A i \in 1..Len(sent) : sent[i].id \in DOMAIN _outstandingRequests
    /\ \A i \in 1..Len(childInbox) : childInbox[i] \in Range(sent)

(* A response of the server answers a request that was sent, carries its   *)
(* id, and is a resolution or a rejection with a reason.                   *)
AnswersCarryId ==
    \A i \in 1..Len(answers) :
        LET a == answers[i]
        IN  /\ a.request \in Range(sent)
            /\ a.response.id = a.request.id
            /\ \/ a.response.value.kind = "resolution"
                  /\ a.response.value.rejection = Undefined
               \/ a.response.value.kind = "rejection"
                  /\ a.response.value.rejection # Undefined

(* The response taken settles the request registered under its id, if that *)
(* is pending, with its payload, and leaves every other Deferred as it     *)
(* was; under an id nobody registered it changes nothing.                  *)
SettlesOnlyItsRequest ==
    LET response == Head(parentInbox)
        i == response.id
    IN  /\ DOMAIN _outstandingRequests' = DOMAIN _outstandingRequests
        /\ \A j \in DOMAIN _outstandingRequests :
              j # i => _outstandingRequests'[j] = _outstandingRequests[j]
        /\ i \notin DOMAIN _outstandingRequests => client' = client
        /\ i \in DOMAIN _outstandingRequests =>
              LET deferred == _outstandingRequests[i]
                  after == _outstandingRequests'[i]
              IN  IF deferred.state # "pending" THEN after = deferred
                  ELSE /\ response.value.kind = "resolution" =>
                             after = [state |-> "resolved",
                                      value |-> response.value.resolution]
                       /\ response.value.kind = "rejection" =>
                             after = [state |-> "rejected",
                                      value |-> response.value.rejection]

(* C14: the ids of the requests sent are unique and registered when sent;  *)
(* every response of the server carries the id of the request it answers   *)
(* and a resolution or a rejection with a reason; a response delivered to  *)
(* the parent settles the request registered under its id and no other,    *)
(* in whatever order the responses arrive, and is ignored when nobody      *)
(* registered its id.                                                      *)
C14_Correlation ==
    /\ [](UniqueIds /\ RegisteredWhenSent /\ AnswersCarryId)
    /\ [][Delivered => SettlesOnlyItsRequest]_vars

(* The server answered request 2 before request 1, both answers and a      *)
(* message under an id nobody registered were delivered, and each request  *)
(* is settled with its own answer.                                         *)
C14_Witness ==
    /\ client = "running"
    /\ parentInbox = << >>
    /\ foreign = 1
    /\ Len(answers) = 2
    /\ answers[1].request.id = 2
    /\ answers[2].request.id = 1
    /\ \A i \in 1..2 :
          LET a == answers[i]
              deferred == _outstandingRequests[a.request.id]
          IN  /\ a.request.value.kind = "getWarningsFor"
              /\ IF a.response.value.kind = "resolution"
                 THEN deferred = [state |-> "resolved",
                                  value |-> "warnings of " \o a.request.value.localPath]
                 ELSE deferred = [state |-> "rejected",
                                  value |-> a.response.value.rejection]
    /\ _outstandingRequests[1] # _outstandingRequests[2]

\* The kinds of request EditorServer.handleMessage has a case for
RequestKinds ==
    {"getWarningsFor", "fileChanged", "init", "getDefinitionFor", "getDocumentationFor",
     "getTypeaheadCompletionsFor", "clearCaches"}

\* The kinds of response _handleResponse has a case for
ResponseKinds == {"resolution", "rejection"}

(* C15: a message of a kind with no declared handler is a fatal protocol   *)
(* error: handleMessage raises on a request of an unknown kind, so the     *)
(* request is answered with a rejection, and the parent's _handleResponse  *)
(* raises on a response of an unknown kind, which ends the parent.         *)
C15_UnknownKindFatal ==
    [][/\ \A i \in 1..Len(answers') :
             answers'[i].request.value.kind \notin RequestKinds
                => answers'[i].response.value.kind = "rejection"
       /\ (Delivered /\ Head(parentInbox).value.kind \notin ResponseKinds)
             => client' = "crashed"]_vars

----------------------------------------------------------------------------
(* What the claim about the dependencies of a document is stated in *)

\* The feature list of scan s
FeaturesOf(s) ==
    IF ~scans[s].inline THEN _getScannedFeatures(scans[s].type, scans[s].url)
    ELSE IF scans[s].type \in scanners THEN scanInline(scans[s].type, scans[s].url)
    ELSE << >>

\* The imports and inline documents of a feature list, as the places they
\* have in the list
RECURSIVE DependencyFeatures(_, _)
DependencyFeatures(features, i) ==
    IF i > Len(features) THEN << >>
    ELSE (IF features[i].kind \in {"import", "inline"} THEN << i >> ELSE << >>)
         \o DependencyFeatures(features, i + 1)

\* Scan s got past `await this._getScannedFeatures(document)`
Dispatched(s) == scans[s].pc \in {"deps", "fulfilled"} \/ scans[s].completed # << >>

(* Every import and inline document of the feature list has its promise,   *)
(* in the order of the list, whether or not any of them has settled.       *)
AllDispatched(s) ==
    LET wanted == DependencyFeatures(FeaturesOf(s), 1)
        edges == scans[s].edges
    IN  /\ Len(edges) = Len(wanted)
        /\ \A k \in 1..Len(edges) :
              /\ edges[k].feature = wanted[k]
              /\ edges[k].target \in 1..Len(scans)

\* The targets of the edges of s from edge i on that were fulfilled
RECURSIVE InFeatureOrder(_, _)
InFeatureOrder(s, i) ==
    IF i > Len(scans[s].edges) THEN << >>
    ELSE LET t == scans[s].edges[i].target
         IN  (IF scans[t].pc = "fulfilled" THEN << t >> ELSE << >>)
             \o InFeatureOrder(s, i + 1)

(* C16: once a document's features are known every import and inline edge  *)
(* is dispatched, before any of them is awaited; the dependency list of    *)
(* the ScannedDocument holds the ScannedDocuments the edges resolved to,   *)
(* in the order of their features, whatever the order in which the edges   *)
(* settled; an edge that failed adds nothing.                              *)
C16_FanOutFanIn ==
    \A s \in Scans :
        /\ Dispatched(s) => AllDispatched(s)
        /\ scans[s].pc = "fulfilled" => scans[s].dependencies = InFeatureOrder(s, 1)

(* A ScannedDocument of three edges: the last settled first and the first  *)
(* settled last, both resolved, the second failed; the dependency list     *)
(* holds the first edge's document, then the last edge's.                  *)
C16_Witness ==
    \E s \in Scans :
        /\ scans[s].pc = "fulfilled"
        /\ Len(scans[s].edges) = 3
        /\ scans[s].completed[1] = 3
        /\ scans[s].completed[3] = 1
        /\ scans[s].edges[2].state # "resolved"
        /\ scans[s].dependencies = << scans[s].edges[1].target, scans[s].edges[3].target >>

----------------------------------------------------------------------------
----------------------------------------------------------------------------
\* Request r1 gave fresh contents for its url and had completed when request
\* r2 was made, and no later request before r2 gave contents for that url
FreshBefore(r1, r2) ==
    /\ r1 < r2
    /\ requests[r1].contents # NoContents
    /\ r1 \in requests[r2].done
    /\ Result(r1).pc = "fulfilled"
    /\ \A r \in (r1 + 1)..(r2 - 1) :
          requests[r].url = requests[r1].url => requests[r].contents = NoContents

\* The contents the ScannedDocument of scan s was parsed from
ContentsOf(s) == loads[scans[s].load].contents

(* C18: once analyzeRoot(U, contents) has completed, a later analyzeRoot(R) *)
(* of a root R # U analyzed before yields a graph in which every           *)
(* ScannedDocument of U was parsed from those contents.  R's analysis had  *)
(* completed before the call that gave the contents.                       *)
C18_LaterAccessSeesFresh ==
    \A r0, r1, r2 \in Reqs :
        ( /\ r0 \in requests[r1].done
          /\ FreshBefore(r1, r2)
          /\ requests[r0].url = requests[r2].url
          /\ requests[r2].url # requests[r1].url
          /\ requests[r2].contents = NoContents
          /\ Result(r2).pc = "fulfilled" )
        => \A s \in DocumentGraph(r2) :
              (~scans[s].inline /\ scans[s].url = requests[r1].url)
                 => ContentsOf(s) = requests[r1].contents

----------------------------------------------------------------------------
\* The step in which a single-binding declaration or an assignment is visited
VisitsDeclaration ==
    /\ Len(visited') = Len(visited) + 1
    /\ IsDeclaration(visited'[Len(visited')])
    /\ Len(visited'[Len(visited')].declarations) = 1

\* A candidate whose parsed comment has no polymerBehavior tag and whose
\* name is not the sentinel
Abandoned(node) ==
    /\ Candidate(node)
    /\ ~node.hasTag
    /\ SymbolOf(node) # templatizer

\* No emitted record is the one made for an abandoned candidate
NoAbandonedEmitted ==
    \A b \in Range(behaviors), i \in 1..Len(visited) :
        Abandoned(visited[i]) => objects[b].sourceRange # visited[i].loc

(* C19: visiting a single-binding declaration or an assignment makes a     *)
(* behavior record only if its comment contains '@polymerBehavior' or its  *)
(* name is 'Polymer.Templatizer', and otherwise changes neither the        *)
(* visitor's state nor the emitted set; a candidate without the tag in its *)
(* parsed comment and without the sentinel name leaves currentBehavior and *)
(* propertyHandlers null and is never emitted.                             *)
C19_CandidateClassification ==
    [][/\ VisitsDeclaration =>
            LET node == visited'[Len(visited')]
            IN  /\ ~Candidate(node) =>
                      UNCHANGED <<objects, behaviors, currentBehavior,
                                  propertyHandlers, status>>
                /\ Len(objects') > Len(objects) => Candidate(node)
                /\ Abandoned(node) =>
                      /\ currentBehavior' = 0
                      /\ propertyHandlers' = 0
                      /\ behaviors' = behaviors
       /\ NoAbandonedEmitted']_vars

(* The scan returned nothing after an assignment whose comment only        *)
(* mentions the tag was started and abandoned, its object literal visited, *)
(* and an assignment with a plain comment visited.                         *)
C19_Witness ==
    /\ status = "returned"
    /\ behaviors = << >>
    /\ Len(objects) = 1
    /\ currentBehavior = 0
    /\ propertyHandlers = 0
    /\ \E i, j, k \in 1..Len(visited) :
          /\ i < j
          /\ Abandoned(visited[i])
          /\ visited[j].parent = visited[i].loc
          /\ IsDeclaration(visited[k]) /\ ~Candidate(visited[k])

----------------------------------------------------------------------------
\* A candidate that is not abandoned
Promoted(node) ==
    /\ Candidate(node)
    /\ node.hasTag \/ SymbolOf(node) = templatizer

(* C20: the record made for a declaration that is taken as a behavior has  *)
(* as className the name argument of its polymerBehavior tag when there is *)
(* one, else the name inferred from the declaration, and so has the       *)
(* record it is merged into; when both are empty the scan fails, and a     *)
(* failed scan never returns.                                              *)
C20_ClassName ==
    [][/\ (VisitsDeclaration /\ Promoted(visited'[Len(visited')])) =>
            LET node == visited'[Len(visited')]
                made == objects'[Len(objects')]
            IN  /\ Len(objects') = Len(objects) + 1
                /\ made.sourceRange = node.loc
                /\ IF node.tagName # "" THEN made.className = node.tagName
                   ELSE made.className = SymbolOf(node)
                /\ made.className = "" <=> status' = "thrown"
                /\ made.className # "" =>
                      IF isSimpleBehaviorArray(behaviorExpression(node))
                      THEN \E b \in Range(behaviors') :
                              objects'[b].className = made.className
                      ELSE objects'[currentBehavior'].className = made.className
       /\ status = "thrown" => status' = "thrown"]_vars

(* A declaration of AImpl tagged `@polymerBehavior A` was emitted under    *)
(* the className A, a record was emitted under its inferred name, and the  *)
(* scan then failed on a tagged declaration with no name.                  *)
C20_Witness ==
    /\ status = "thrown"
    /\ \E i \in 1..Len(visited), b \in Range(behaviors) :
          /\ Promoted(visited[i])
          /\ visited[i].tagName = "A" /\ SymbolOf(visited[i]) = "AImpl"
          /\ objects[b].sourceRange = visited[i].loc
          /\ objects[b].className = "A"
    /\ \E i \in 1..Len(visited), b \in Range(behaviors) :
          /\ Promoted(visited[i])
          /\ visited[i].tagName = "" /\ SymbolOf(visited[i]) # ""
          /\ objects[b].sourceRange = visited[i].loc
          /\ objects[b].className = SymbolOf(visited[i])
    /\ LET last == visited[Len(visited)]
       IN  Promoted(last) /\ last.tagName = "" /\ SymbolOf(last) = ""

----------------------------------------------------------------------------
\* The step in which an object literal is folded into the current behavior
FoldsLiteral ==
    /\ Len(visited') = Len(visited) + 1
    /\ visited'[Len(visited')].type = "ObjectExpression"
    /\ currentBehavior # 0

\* The keys of an object literal from key i on that satisfy `taken`, as
\* properties
RECURSIVE KeysOf(_, _, _)
KeysOf(node, keys, i) ==
    IF i > Len(node.properties) THEN << >>
    ELSE (IF node.properties[i] \in keys
          THEN << [name |-> node.properties[i], sourceRange |-> node.loc] >>
          ELSE << >>)
         \o KeysOf(node, keys, i + 1)

(* C21: when an object literal is folded into the current behavior and one *)
(* of its keys is no static string, the scan fails with an error that      *)
(* carries the literal's location, and a failed scan never returns;        *)
(* otherwise every key with a registered handler is handed to the handler, *)
(* every other key is added to the record as a property, the record is     *)
(* emitted and currentBehavior is null.                                    *)
C21_FoldObjectLiteral ==
    [][/\ FoldsLiteral =>
            LET node == visited'[Len(visited')]
                keys == Range(node.properties)
                b == currentBehavior
            IN  IF "" \in keys
                THEN /\ status' = "thrown"
                     /\ thrown'.location = node.loc
                     /\ thrown'.location # 0
                ELSE /\ status' = "visiting"
                     /\ objects'[b].handled =
                           objects[b].handled \o KeysOf(node, handlerKeys, 1)
                     /\ objects'[b].properties =
                           objects[b].properties \o KeysOf(node, keys \ handlerKeys, 1)
                     /\ b \in Range(behaviors')
                     /\ currentBehavior' = 0
       /\ status = "thrown" => status' = "thrown"]_vars

----------------------------------------------------------------------------
\* The places of the object literals in the initializer of a declaration
LiteralsIn(node) ==
    {literal.loc : literal \in Range(Literals(node.declarations, 1))}

(* C22: every property of a behavior record, and every key handed to its   *)
(* handlers, comes from an object literal in the initializer of an         *)
(* accepted declaration of that record's className: the properties of any  *)
(* other object literal are added to no record.                            *)
C22_OnlyOwnLiteralFolded ==
    \A b \in 1..Len(objects) :
        \A prop \in Range(objects[b].properties) \cup Range(objects[b].handled) :
            \E i \in 1..Len(visited) :
                /\ Accepted(visited[i])
                /\ ClassNameOf(visited[i]) = objects[b].className
                /\ prop.sourceRange \in LiteralsIn(visited[i])

----------------------------------------------------------------------------
\* The inline-document edge i of scan s settles in this step
InlineSettles(s, i) ==
    /\ s \in 1..Len(scans)
    /\ i \in 1..Len(scans[s].edges)
    /\ scans[s].edges[i].kind = "inline"
    /\ scans[s].edges[i].state = "pending"
    /\ scans'[s].edges[i].state # "pending"

(* C23: when the scan of an inline document fails with a                   *)
(* WarningCarryingException, the warning, its range corrected by the       *)
(* inline document's offset, is appended to the container's warnings, the  *)
(* edge gives no dependency and the container's scan goes on (and is       *)
(* fulfilled unless another edge throws); when it fails with any other     *)
(* error, a missing parser included, the container's scan is rejected with *)
(* that error.                                                             *)
C23_InlineFailure ==
    [][\A s \in 1..Len(scans) : \A i \in 1..Len(scans[s].edges) :
         LET target == scans[scans[s].edges[i].target]
             feature == FeaturesOf(s)[scans[s].edges[i].feature]
         IN  /\ InlineSettles(s, i) /\ target.pc = "rejected" =>
                 IF target.err = "WarningCarryingException"
                 THEN /\ scans'[s].warnings =
                            Append(scans[s].warnings,
                                   [code |-> "parse-error", severity |-> "ERROR",
                                    sourceRange |-> feature.sourceRange + 1])
                      /\ scans'[s].edges[i].state = "warned"
                      /\ scans'[s].pc = "deps"
                 ELSE /\ scans'[s].pc = "rejected"
                      /\ scans'[s].err = target.err
                      /\ scans'[s].warnings = scans[s].warnings
             /\ scans[s].edges[i].state = "warned" =>
                 /\ scans[s].edges[i].target \notin Range(scans[s].dependencies)
                 /\ scans'[s].pc = "rejected" =>
                        \E j \in 1..Len(scans'[s].edges) :
                            scans'[s].edges[j].state = "threw"
             /\ scans[s].edges[i].state = "threw" => scans'[s].pc = "rejected"]_vars

\* A container was fulfilled although an inline document of it failed with a
\* warning
C23_Witness ==
    \E s \in 1..Len(scans) : \E i \in 1..Len(scans[s].edges) :
        /\ scans[s].pc = "fulfilled"
        /\ scans[s].edges[i].kind = "inline"
        /\ scans[s].edges[i].state = "warned"
        /\ \E k \in 1..Len(scans[s].warnings) : scans[s].warnings[k].code = "parse-error"
        /\ scans[s].edges[i].target \notin Range(scans[s].dependencies)

\* A container was rejected by an inline document that has no parser
InlineRejects ==
    \E s \in 1..Len(scans) : \E i \in 1..Len(scans[s].edges) :
        /\ scans[s].pc = "rejected"
        /\ scans[s].err = "NoKnownParserError"
        /\ scans[s].edges[i].state = "threw"

----------------------------------------------------------------------------
\* A feature as the scanners returned it: what the scan has not set
AsScanned(feature) == [kind |-> feature.kind, url |-> feature.url, type |-> feature.type]

(* C24: the ScannedDocument of a fulfilled scan holds every feature the    *)
(* scanners returned, in their order, the imports that failed included;    *)
(* the back-link of an import or inline document is set exactly when the   *)
(* promise of its edge was fulfilled, and then it is the document the      *)
(* dependency list holds for that edge, marked isInline when the feature   *)
(* is an inline document.                                                  *)
C24_FeaturesAndBackLinks ==
    \A s \in 1..Len(scans) :
        scans[s].pc = "fulfilled" =>
            LET features == scans[s].features
                edges == scans[s].edges
            IN  /\ Len(features) = Len(FeaturesOf(s))
                /\ \A k \in 1..Len(features) : AsScanned(features[k]) = AsScanned(FeaturesOf(s)[k])
                /\ Len(edges) = Len(DependencyFeatures(features, 1))
                /\ \A i \in 1..Len(edges) :
                      LET feature == features[edges[i].feature]
                          target == edges[i].target
                      IN  /\ feature.scannedDocument # 0 <=> scans[target].pc = "fulfilled"
                          /\ feature.scannedDocument # 0 =>
                                /\ feature.scannedDocument = target
                                /\ target \in Range(scans[s].dependencies)
                                /\ feature.kind = "inline" => scans[target].isInline

\* A fulfilled scan whose first import is linked, whose second import failed
\* and is still in the feature list, and whose inline document is linked
C24_Witness ==
    \E s \in 1..Len(scans) :
        /\ scans[s].pc = "fulfilled"
        /\ Len(scans[s].features) = 3
        /\ scans[s].features[1].scannedDocument # 0
        /\ scans[s].features[2].kind = "import"
        /\ scans[s].features[2].scannedDocument = 0
        /\ scans[s].features[3].kind = "inline"
        /\ scans[s].features[3].scannedDocument # 0
        /\ Len(scans[s].dependencies) = 2

----------------------------------------------------------------------------
\* This step visits an accepted declaration whose className has an emitted
\* record: the declaration is merged into that record
MergesDeclaration ==
    /\ VisitsDeclaration
    /\ Accepted(visited'[Len(visited')])
    /\ Emitted(ClassNameOf(visited'[Len(visited')])) # {}

(* C25: when a declaration is merged into the emitted record of its        *)
(* className, the record's description becomes the longer of the record's  *)
(* and the declaration's when neither is empty, the record's own on equal  *)
(* length; a declaration without description leaves the record's           *)
(* description as it was.                                                  *)
C25_MergedDescription ==
    [][MergesDeclaration =>
          LET node == visited'[Len(visited')]
          IN  \A b \in Emitted(ClassNameOf(node)) :
                  LET existing == objects[b].description
                      merged == objects'[b].description
                  IN  /\ (existing # "" /\ node.comment # "") =>
                            /\ merged \in {existing, node.comment}
                            /\ Len(merged) >= Len(existing)
                            /\ Len(merged) >= Len(node.comment)
                            /\ Len(node.comment) = Len(existing) => merged = existing
                      /\ node.comment = "" => merged = existing]_vars

\* Polymer.Templatizer was declared with the comment "plain", then with the
\* equally long "notes", then without comment, and kept "plain"
C25_Witness ==
    /\ \E i, j, k \in 1..Len(visited) :
          /\ i < j /\ j < k
          /\ visited[i].loc = 16 /\ visited[j].loc = 17 /\ visited[k].loc = 8
    /\ Emitted(templatizer) # {}
    /\ \A b \in Emitted(templatizer) : objects[b].description = "plain"

----------------------------------------------------------------------------
\* The name `entry` has the className c as a substring
HasSubstring(entry, c) ==
    \E i \in 1..(Len(entry) - Len(c) + 1) : SubSeq(entry, i, i + Len(c) - 1) = c

\* The names a declaration lists as its behaviors: the identifiers of its
\* array initializer
ListedBy(node) ==
    LET expression == node.declarations[1].init
    IN  IF expression.type = "ArrayExpression"
        THEN SelectSeq([k \in 1..Len(expression.elements) |-> expression.elements[k].name],
                       LAMBDA name : name # "")
        ELSE << >>

(* C26: when a declaration is merged into the emitted record of its        *)
(* className, the record's behaviors become its former behaviors followed  *)
(* by the names the declaration lists, without the names that have the     *)
(* className as a substring; the other names are all kept, in order.       *)
C26_MergedBehaviors ==
    [][MergesDeclaration =>
          LET node == visited'[Len(visited')]
              c == ClassNameOf(node)
          IN  \A b \in Emitted(c) :
                  objects'[b].behaviors =
                      SelectSeq(objects[b].behaviors \o ListedBy(node),
                                LAMBDA entry : ~HasSubstring(entry, c))]_vars

\* A was declared as an object, then as [{...}, AImpl, B], then as
\* [B, AImpl]: its record lists B twice and AImpl not at all
C26_Witness ==
    /\ \E i, j \in 1..Len(visited) : i < j /\ visited[i].loc = 5 /\ visited[j].loc = 14
    /\ \E b \in Emitted("A") : objects[b].behaviors = << "B", "B" >>

----------------------------------------------------------------------------
\* The places of the ScannedElements in a feature list
Elements(features) == {k \in 1..Len(features) : features[k].kind = "element"}

(* C27: in the ScannedDocument of an inline document every ScannedElement  *)
(* has its place moved by the inline document's location offset, and the   *)
(* HTML comment attached to the inline document is on the first            *)
(* ScannedElement of the feature list, wherever it stands in the list, and *)
(* on no other feature.                                                    *)
C27_OffsetAndComment ==
    \A c \in 1..Len(scans) : \A i \in 1..Len(scans[c].features) :
        LET inlineDoc == scans[c].features[i]
            t == inlineDoc.scannedDocument
        IN  (inlineDoc.kind = "inline" /\ t # 0) =>
                LET scanned == FeaturesOf(t)
                    features == scans[t].features
                    first == Least(Elements(scanned))
                IN  /\ Len(features) = Len(scanned)
                    /\ \A k \in Elements(scanned) :
                          features[k].sourceRange =
                              scanned[k].sourceRange + inlineDoc.locationOffset
                    /\ \A k \in 1..Len(features) :
                          features[k].htmlComment =
                              IF k = first THEN inlineDoc.attachedComment ELSE NoComment

----------------------------------------------------------------------------
\* The style nodes among the nodes visited so far, in document order
StyleNodesVisited ==
    SelectSeq(SubSeq(htmlDocument.nodes, 1, nodesVisited), isStyleNode)

(* C28: the ScannedImport the style scanner emits for a stylesheet link    *)
(* has the type 'html-style' and as url the link's href as it is written   *)
(* in the document.                                                        *)
C28_UrlAsWritten ==
    /\ Len(styleFeatures) = Len(StyleNodesVisited)
    /\ \A k \in 1..Len(styleFeatures) :
          LET node == StyleNodesVisited[k]
          IN  node.nodeName = "link" =>
                 /\ styleFeatures[k].kind = "import"
                 /\ styleFeatures[k].type = "html-style"
                 /\ styleFeatures[k].url = node.href

----------------------------------------------------------------------------
\* This step constructs a ScannedBehavior and calls _startBehavior with it
StartsBehavior == Len(objects') = Len(objects) + 1

(* C29: whenever _startBehavior is called no behavior is in progress, and  *)
(* whenever _finishBehavior adds a record to the emitted set that record   *)
(* is the behavior in progress: the one that was pending before the step   *)
(* or the one the step itself has started.                                 *)
C29_AssertionsHold ==
    [][/\ StartsBehavior => currentBehavior = 0
       /\ \A b \in Range(behaviors') \ Range(behaviors) :
             b = currentBehavior \/ (StartsBehavior /\ b = Len(objects'))]_vars

----------------------------------------------------------------------------
(* C30: when the scan has returned, the result holds a record of the       *)
(* className of every declaration that was accepted as a behavior,         *)
(* whatever its initializer and whatever was visited after it.             *)
C30_EveryDeclarationFound ==
    status = "returned" =>
        \A i \in 1..Len(visited) :
            Accepted(visited[i]) => Emitted(ClassNameOf(visited[i])) # {}

----------------------------------------------------------------------------
\* The request with this id was made and its promise is settled
Settled31(id) ==
    /\ id \in DOMAIN _outstandingRequests
    /\ _outstandingRequests[id].state # "pending"

(* C31: every request made through request(), the 'init' request of the    *)
(* constructor included, is eventually resolved or rejected when messages  *)
(* are delivered and the child stays alive.                                *)
C31_EveryRequestSettles ==
    \A id \in 0..(MaxRequests - 1) :
        (id \in DOMAIN _outstandingRequests) ~> Settled31(id)

\* Every request but 'init' is eventually resolved or rejected
OtherRequestsSettle ==
    \A id \in 1..(MaxRequests - 1) :
        (id \in DOMAIN _outstandingRequests) ~> Settled31(id)

----------------------------------------------------------------------------
\* The first message the child gets is the first one sent: it is 'init'
FirstIsInit == sent # << >> /\ sent[1].value.kind = "init"

\* The answer of the process.once listener to a first message that is not
\* 'init'
ExpectedInit(message) ==
    [request |-> message,
     response |-> ResponseWrapper(message.id,
                     Rejection("Expected first message to be 'init', got "
                               \o message.value.kind))]

(* C32: the server handles a request only when the first message it got    *)
(* was 'init', and the EditorServer is the one made for that message; a    *)
(* first message that is not 'init' is answered with a rejection under its *)
(* id and nothing else is ever handled or answered; an 'init' that comes   *)
(* later is answered with the rejection 'Already initialized!' under its   *)
(* id and the EditorServer stays the one of the first message.             *)
C32_InitProtocol ==
    /\ (handling # {} \/ editorServer # NoServer \/ server = "serving") =>
          /\ FirstIsInit
          /\ editorServer = EditorServer(sent[1].value.localPath, sent[1].id)
          /\ sent[1] \notin handling
          /\ \A k \in 1..Len(answers) : answers[k].request # sent[1]
    /\ server = "deaf" =>
          /\ ~FirstIsInit
          /\ answers = << ExpectedInit(sent[1]) >>
          /\ handling = {}
    /\ \A k \in 1..Len(answers) :
          (FirstIsInit /\ answers[k].request.value.kind = "init") =>
              /\ answers[k].response.id = answers[k].request.id
              /\ answers[k].response.value.kind = "rejection"
              /\ indexOf(answers[k].response.value.rejection, "Already initialized!") # -1

\* 'init' was sent twice and then a request for warnings: the second 'init'
\* was rejected, the request for warnings answered
C32_Witness ==
    /\ FirstIsInit
    /\ editorServer.from = 0
    /\ \E j, k \in 1..Len(answers) :
          /\ answers[j].request.value.kind = "init"
          /\ answers[j].request.id = 1
          /\ answers[j].response.value.kind = "rejection"
          /\ answers[k].request.value.kind = "getWarningsFor"
          /\ answers[k].response.value.kind = "resolution"

\* The first message was not 'init': it was rejected and the child is deaf
NotInitFirst ==
    /\ server = "deaf"
    /\ Len(sent) = 3
    /\ childInbox = << >>
    /\ Len(answers) = 1

----------------------------------------------------------------------------
\* The scan promise cached for url is rejected
Failed33(url) ==
    /\ _scannedDocuments[url] # 0
    /\ scans[_scannedDocuments[url]].pc = "rejected"

\* This step evicts the entries of url: analyzeRoot(url, contents), or the
\* clear-caches operation
Evicts33(url) ==
    \/ /\ C5_FreshCall
       /\ requests'[Len(requests')].url = url
    \/ clearMark'.n # clearMark.n

\* The targets of the import edges to url that this step creates
NewImportsOf(url) ==
    UNION { { scans'[x].edges[j].target :
                j \in {k \in 1..Len(scans'[x].edges) :
                         /\ scans'[x].edges[k].kind = "import"
                         /\ _resolveUrl(scan(scans[x].url)
                                           [scans'[x].edges[k].feature].url) = url} } :
            x \in {y \in Scans : scans[y].pc = "load"} }

\* A step taken while the failure of url is cached and not evicted
StaysFailed(url) ==
    LET s == _scannedDocuments[url]
    IN  /\ _scannedDocuments'[url] = s
        /\ scans'[s].pc = "rejected"
        /\ scans'[s].err = scans[s].err
        /\ {t \in 1..Len(scans') : ~scans'[t].inline /\ scans'[t].url = url} = ScansOf(url)
        /\ {l \in 1..Len(loads') : loads'[l].url = url} = LoadsOf(url)
        /\ \A l \in LoadsOf(url) : (loads[l].pc = "tick") = (loads'[l].pc = "tick")
        /\ (/\ Len(requests') = Len(requests) + 1
            /\ requests'[Len(requests')].url = url)
              => requests'[Len(requests')].scan = s
        /\ NewImportsOf(url) \subseteq {s}

(* C33: once the scan promise cached for a url is rejected, every step     *)
(* that is neither analyzeRoot(url, contents) nor a clearing of the caches *)
(* leaves that promise cached and rejected with the same error, gives it   *)
(* to a new request for the url and to each new import edge to the url,    *)
(* creates no scan or load promise for the url and calls loader.load for   *)
(* it no more.                                                             *)
C33_FailureStaysCached ==
    [][\A url \in URLS : (Failed33(url) /\ ~Evicts33(url)) => StaysFailed(url)]_vars

\* x.txt failed for want of a parser and was requested again after that:
\* the second request has the same rejected promise, one load was made
C33_Witness ==
    \E r1, r2 \in Reqs :
        /\ r1 \in requests[r2].done
        /\ requests[r1].url = X_txt /\ requests[r2].url = X_txt
        /\ requests[r1].contents = NoContents /\ requests[r2].contents = NoContents
        /\ requests[r2].scan = requests[r1].scan
        /\ Result(r1).pc = "rejected"
        /\ Result(r1).err = "NoKnownParserError"
        /\ LoadCalls(X_txt) = 1
        /\ Quiescent

\* g.html was scanned again with fresh contents after f.html had failed to
\* load: its import has the rejected promise of before, one load was made
C33_ImportWitness ==
    \E r1, r2 \in Reqs :
        /\ r1 \in requests[r2].done
        /\ requests[r1].url = G_html /\ requests[r2].url = G_html
        /\ requests[r2].contents # NoContents
        /\ Result(r1).pc = "fulfilled" /\ Result(r2).pc = "fulfilled"
        /\ requests[r2].scan # requests[r1].scan
        /\ Result(r2).edges[1].target = Result(r1).edges[1].target
        /\ scans[Result(r2).edges[1].target].err = "LoadRejected"
        /\ LoadCalls(F_html) = 1
        /\ Quiescent

----------------------------------------------------------------------------
\* The keys of the two caches
ScanKeys == {u \in URLS : _scannedDocuments[u] # 0}
ParseKeys == {u \in URLS : _parsedDocuments[u] # 0}

\* The resolved URLs requested through analyzeRoot or through an import edge
Requested ==
    {requests[r].url : r \in Reqs}
    \cup UNION { {scans[scans[s].edges[i].target].url :
                     i \in {k \in 1..Len(scans[s].edges) :
                              scans[s].edges[k].kind = "import"}} : s \in Scans }

\* The inline scans this step creates, and whether it settles an inline edge
NewInline == {t \in 1..Len(scans') : t > Len(scans) /\ scans'[t].inline}
SettlesInline ==
    \E s \in Scans : \E i \in 1..Len(scans[s].edges) :
        /\ scans[s].edges[i].kind = "inline"
        /\ Len(scans'[s].edges) = Len(scans[s].edges)
        /\ scans'[s].edges[i].state # scans[s].edges[i].state

\* A step that scans an inline document leaves the container's entries alone
\* and makes no load promise; settling one leaves both caches alone
C34_Frame ==
    /\ \A t \in NewInline :
          /\ _scannedDocuments'[scans'[t].url] = _scannedDocuments[scans'[t].url]
          /\ _parsedDocuments'[scans'[t].url] = _parsedDocuments[scans'[t].url]
          /\ loads' = loads
    /\ SettlesInline =>
          /\ _scannedDocuments' = _scannedDocuments
          /\ _parsedDocuments' = _parsedDocuments
          /\ loads' = loads

\* No entry is an inline scan; each entry is a promise made for its key; the
\* keys are requested URLs: all of them in the scan cache, all of them the
\* loader can load in the parse cache
C34_Keys ==
    /\ \A u \in ScanKeys :
          /\ ~scans[_scannedDocuments[u]].inline
          /\ scans[_scannedDocuments[u]].url = u
    /\ \A u \in ParseKeys : loads[_parsedDocuments[u]].url = u
    /\ ScanKeys \subseteq Requested
    /\ ParseKeys \subseteq Requested
    /\ clearMark.n = 0 => ScanKeys = Requested
    /\ (clearMark.n = 0 /\ ~MicrotaskPending)
          => ParseKeys = {u \in Requested : canLoad(u)}

(* C34: scanning an inline document adds, replaces and removes no entry of *)
(* the parse cache or the scan cache: the inline document is parsed under  *)
(* its container's URL and the container's entries stay as they are; the   *)
(* keys of the scan cache are exactly the resolved URLs requested through  *)
(* analyzeRoot or import edges, those of the parse cache exactly the ones  *)
(* of them that the loader can load (once no microtask is pending, and     *)
(* while the caches have not been cleared).                                *)
C34_InlineLeavesCaches == [][C34_Frame]_vars /\ []C34_Keys

\* r.html is fulfilled with its inline script as a dependency scanned under
\* the url of r.html; the entries of r.html are the promises of the request
C34_Witness ==
    \E r \in Reqs : \E i \in 1..Len(Result(r).edges) :
        /\ requests[r].url = R_html
        /\ Result(r).pc = "fulfilled"
        /\ Result(r).edges[i].kind = "inline"
        /\ Result(r).edges[i].state = "resolved"
        /\ scans[Result(r).edges[i].target].inline
        /\ scans[Result(r).edges[i].target].url = R_html
        /\ _scannedDocuments[R_html] = requests[r].scan
        /\ _parsedDocuments[R_html] = Result(r).load
        /\ ScanKeys = {R_html, V_html, X_txt}
        /\ ParseKeys = {R_html, V_html, X_txt}

(* C34 as stated: the keys of both caches are exactly the resolved URLs    *)
(* requested through analyzeRoot or import edges (once no microtask is     *)
(* pending, and while the caches have not been cleared).                   *)
C34_KeysAreRequested ==
    (clearMark.n = 0 /\ ~MicrotaskPending)
        => ScanKeys = Requested /\ ParseKeys = Requested
====
